---- MODULE Spec2Model ----
(***************************************************************************)
(* A model of redact-verify: the verify orchestrator (src/core.py), the    *)
(* surface extractors (src/extractors.py) and the denylist match engine    *)
(* (src/denylist.py).                                                      *)
(*                                                                         *)
(* Text is a sequence of one-character strings.  Optional values are       *)
(* None (the empty tuple) or Some(x) (a one-element tuple).                *)
(***************************************************************************)
EXTENDS Integers, Sequences, FiniteSets, TLC

VARIABLES
    pc,        \* position of the running verify call
    doc,       \* the document file, as the access adapter exposes it
    patterns,  \* denylist_patterns: the compiled patterns handed to verify
    corpus,    \* the Corpus of the running call
    result,    \* the VerifyResult returned, NoResult while the call runs
    handle,    \* the open document: whether open, the layer's visibility
    opts,      \* the ocr_mode and strict arguments, and whether the
               \* recognizer is installed
    prev,      \* the result of the call before this one, and which call
               \* this one is
    cli        \* the state of a run of main: its arguments, its position,
               \* the patterns loaded, the workers, the results, the status

vars == <<pc, doc, patterns, corpus, result, handle, opts, prev, cli>>

----------------------------------------------------------------------------
(* Program constants *)

\* a spanning match is attributed only when its text is longer than this
SpanMinLen == 3

\* the length of the pieces of the matched text looked for in the fragments
OverlapLen == 3

----------------------------------------------------------------------------
(* Optional values and text helpers *)

None == <<>>

Some(x) == <<x>>

SetMax(S) == CHOOSE x \in S : \A y \in S : y <= x

SetMin(S) == CHOOSE x \in S : \A y \in S : x <= y

\* str.lower() on one character
Lower(c) == IF c = "A" THEN "a" ELSE IF c = "B" THEN "b" ELSE c

\* str.lower()
LowerText(t) == [i \in 1..Len(t) |-> Lower(t[i])]

\* the characters the regex class \s and str.split()/str.strip() take as blank
IsSpace(c) == c \in {" ", "\n", "\t", "\r"}

\* needle in haystack, for texts
Contains(hay, needle) ==
    \E p \in 1..(Len(hay) - Len(needle) + 1) :
        SubSeq(hay, p, p + Len(needle) - 1) = needle

----------------------------------------------------------------------------
(* String helpers of the extractors *)

\* str.isalpha() on one character
IsAlpha(c) ==
    c \in {"a", "b", "A", "B", "T", "j", "O", "C", "M", "D", "E", "X", "R",
           "n", "r", "t"}

\* str.isalnum() on one character
IsAlnum(c) ==
    IsAlpha(c) \/ c \in {"0", "1", "2", "3", "4", "5", "6", "7", "8", "9"}

\* a byte of the range \x20-\x7e
IsPrintable(c) == ~(c \in {"\n", "\t", "\r", "NUL"})

RECURSIVE LStrip(_)
LStrip(t) ==
    IF t # <<>> /\ IsSpace(Head(t)) THEN LStrip(Tail(t)) ELSE t

RECURSIVE RStrip(_)
RStrip(t) ==
    IF t # <<>> /\ IsSpace(t[Len(t)]) THEN RStrip(SubSeq(t, 1, Len(t) - 1)) ELSE t

\* str.strip()
Strip(t) == RStrip(LStrip(t))

\* the character classes the extractors scan for
InClass(cls, c) ==
    CASE cls = "space"     -> IsSpace(c)
      [] cls = "nonspace"  -> ~IsSpace(c)
      [] cls = "printable" -> IsPrintable(c)
      [] cls = "flexible"  -> IsAlnum(c) \/ IsSpace(c) \/ c = "-"

\* the length of the run of characters of class cls that starts at pos
RECURSIVE RunLen(_, _, _)
RunLen(t, pos, cls) ==
    IF pos <= Len(t) /\ InClass(cls, t[pos]) THEN 1 + RunLen(t, pos + 1, cls) ELSE 0

\* the number of blanks from pos on
WsLen(t, pos) == RunLen(t, pos, "space")

\* the maximal runs of characters of class cls, in order, from pos on
RECURSIVE Runs(_, _, _)
Runs(t, pos, cls) ==
    IF pos > Len(t) THEN <<>>
    ELSE IF ~InClass(cls, t[pos]) THEN Runs(t, pos + 1, cls)
    ELSE LET n == RunLen(t, pos, cls)
         IN  <<SubSeq(t, pos, pos + n - 1)>> \o Runs(t, pos + n, cls)

\* the texts of seq at least n long, in order
RECURSIVE AtLeast(_, _)
AtLeast(seq, n) ==
    IF seq = <<>> THEN <<>>
    ELSE IF Len(Head(seq)) >= n THEN <<Head(seq)>> \o AtLeast(Tail(seq), n)
    ELSE AtLeast(Tail(seq), n)

\* sep.join(texts)
RECURSIVE Join(_, _)
Join(texts, sep) ==
    IF texts = <<>> THEN <<>>
    ELSE IF Len(texts) = 1 THEN texts[1]
    ELSE texts[1] \o sep \o Join(Tail(texts), sep)

\* " ".join(text.split())
Normalize(t) == Join(Runs(t, 1, "nonspace"), <<" ">>)

\* s.replace(old, new) for a two-character old and a one-character new
RECURSIVE Replace2(_, _, _)
Replace2(t, old, new) ==
    IF Len(t) < 2 THEN t
    ELSE IF SubSeq(t, 1, 2) = old THEN <<new>> \o Replace2(SubSeq(t, 3, Len(t)), old, new)
    ELSE <<Head(t)>> \o Replace2(Tail(t), old, new)

\* _unescape_pdf_string: the six replacements, in the code's order
_unescape_pdf_string(t) ==
    Replace2(Replace2(Replace2(Replace2(Replace2(Replace2(t,
        <<"\\", "n">>, "\n"),
        <<"\\", "r">>, "\r"),
        <<"\\", "t">>, "\t"),
        <<"\\", "(">>, "("),
        <<"\\", ")">>, ")"),
        <<"\\", "\\">>, "\\")

----------------------------------------------------------------------------
(* Content-stream tokenizer and printable-string scanner *)

\* the length a parenthesized literal must reach to be taken out of context
MinLiteralLen == 3

\* the position of the first ")" of t at or after pos, 0 when there is none
RECURSIVE CloseParen(_, _)
CloseParen(t, pos) ==
    IF pos > Len(t) THEN 0
    ELSE IF t[pos] = ")" THEN pos
    ELSE CloseParen(t, pos + 1)

\* finditer of \(([^)]*)\)\s*Tj : the literal strings shown by Tj, in order
RECURSIVE TjStrings(_, _)
TjStrings(t, pos) ==
    IF pos > Len(t) THEN <<>>
    ELSE IF t[pos] # "(" THEN TjStrings(t, pos + 1)
    ELSE LET q == CloseParen(t, pos + 1)
             r == q + 1 + WsLen(t, q + 1)
         IN  IF q = 0 THEN <<>>
             ELSE IF r + 1 <= Len(t) /\ t[r] = "T" /\ t[r + 1] = "j"
             THEN <<SubSeq(t, pos + 1, q - 1)>> \o TjStrings(t, r + 2)
             ELSE TjStrings(t, pos + 1)

\* finditer of \(([^)]{3,})\) : every parenthesized literal of 3 characters
\* or more, in order
RECURSIVE ParenStrings(_, _, _)
ParenStrings(t, pos, min) ==
    IF pos > Len(t) THEN <<>>
    ELSE IF t[pos] # "(" THEN ParenStrings(t, pos + 1, min)
    ELSE LET q == CloseParen(t, pos + 1)
         IN  IF q = 0 THEN <<>>
             ELSE IF q - pos - 1 >= min
             THEN <<SubSeq(t, pos + 1, q - 1)>> \o ParenStrings(t, q + 1, min)
             ELSE ParenStrings(t, pos + 1, min)

\* lines 452-459: unescaped and stripped, the empty ones dropped
RECURSIVE ShownTexts(_)
ShownTexts(groups) ==
    IF groups = <<>> THEN <<>>
    ELSE LET text == _unescape_pdf_string(Head(groups))
         IN  IF Strip(text) # <<>>
             THEN <<Strip(text)>> \o ShownTexts(Tail(groups))
             ELSE ShownTexts(Tail(groups))

\* lines 486-493: the literals that hold a letter, unescaped and stripped,
\* kept when 3 characters or more remain
RECURSIVE LooseTexts(_)
LooseTexts(groups) ==
    IF groups = <<>> THEN <<>>
    ELSE LET text == _unescape_pdf_string(Head(groups))
         IN  IF /\ \E i \in 1..Len(Head(groups)) : IsAlpha(Head(groups)[i])
                /\ Len(Strip(text)) >= MinLiteralLen
             THEN <<Strip(text)>> \o LooseTexts(Tail(groups))
             ELSE LooseTexts(Tail(groups))

\* _extract_text_from_content_stream; the modelled streams hold no array
\* and no hexadecimal string, so the TJ and hex passes find nothing
_extract_text_from_content_stream(stream) ==
    Join(ShownTexts(TjStrings(stream, 1))
            \o LooseTexts(ParenStrings(stream, 1, MinLiteralLen)),
         <<" ">>)

\* lines 976-986: the flexible runs, stripped, kept when they hold a letter
\* or digit and are long enough
RECURSIVE FlexibleTexts(_, _)
FlexibleTexts(runs, min) ==
    IF runs = <<>> THEN <<>>
    ELSE LET decoded == Strip(Head(runs))
         IN  IF /\ decoded # <<>>
                /\ \E i \in 1..Len(decoded) : IsAlnum(decoded[i])
                /\ Len(decoded) >= min
             THEN <<decoded>> \o FlexibleTexts(Tail(runs), min)
             ELSE FlexibleTexts(Tail(runs), min)

\* _extract_strings_from_binary
_extract_strings_from_binary(data, min) ==
    LET plain == Join(AtLeast(Runs(data, 1, "printable"), min), <<" ">>)
        loose == FlexibleTexts(AtLeast(Runs(data, 1, "flexible"), min), min)
    IN  IF plain = <<>> \/ Len(plain) < min
        THEN IF loose = <<>> THEN plain
             ELSE IF plain = <<>> THEN Join(loose, <<" ">>)
             ELSE plain \o <<" ">> \o Join(loose, <<" ">>)
        ELSE plain

----------------------------------------------------------------------------
(* Denylist compiler: DenylistPattern.from_string, literal branch *)

\* re.escape: every character of the special set gets a backslash; a unit
\* of the escaped string is a character and whether it carries one
ReEscape(s) ==
    [i \in 1..Len(s) |-> [esc |-> IsSpace(s[i]), c |-> s[i]]]

\* escaped.replace(r'\ ', r'\s+') then re.compile(..., re.IGNORECASE): each
\* escaped space becomes its own "one or more blanks" token
CompileLiteral(s) ==
    [i \in 1..Len(s) |->
        IF ReEscape(s)[i].esc /\ ReEscape(s)[i].c = " "
        THEN [t |-> "ws"]
        ELSE [t |-> "lit", c |-> ReEscape(s)[i].c]]

from_string(s) ==
    [pattern |-> CompileLiteral(s), original |-> s, is_regex |-> FALSE]

----------------------------------------------------------------------------
(* Pattern.search: leftmost match, greedy quantifier with backtracking *)

\* number of consecutive blanks of text from position pos on
RECURSIVE WsRun(_, _)
WsRun(text, pos) ==
    IF pos <= Len(text) /\ IsSpace(text[pos])
    THEN 1 + WsRun(text, pos + 1)
    ELSE 0

\* the position after the match of tokens k.. at pos, 0 when there is none
RECURSIVE MatchEnd(_, _, _, _)
MatchEnd(toks, k, text, pos) ==
    IF k > Len(toks) THEN pos
    ELSE IF toks[k].t = "lit"
    THEN IF pos <= Len(text) /\ Lower(text[pos]) = Lower(toks[k].c)
         THEN MatchEnd(toks, k + 1, text, pos + 1)
         ELSE 0
    ELSE LET ok == {n \in 1..WsRun(text, pos) :
                        MatchEnd(toks, k + 1, text, pos + n) # 0}
         IN  IF ok = {} THEN 0
             ELSE MatchEnd(toks, k + 1, text, pos + SetMax(ok))

\* the start positions at which the pattern matches
MatchStarts(toks, text) ==
    {p \in 1..(Len(text) + 1) : MatchEnd(toks, 1, text, p) # 0}

\* dp.pattern.search(text) is not None
Search(toks, text) == MatchStarts(toks, text) # {}

\* match_obj.group(0)
Group0(toks, text) ==
    LET s == SetMin(MatchStarts(toks, text))
    IN  SubSeq(text, s, MatchEnd(toks, 1, text, s) - 1)

----------------------------------------------------------------------------
(* Corpus and its derived full text *)

TextFragment(text, source, page, location) ==
    [text |-> text, source |-> source, page |-> page, location |-> location]

EmptyCorpus ==
    [fragments |-> <<>>, surfaces_extracted |-> <<>>, ocr_performed |-> FALSE]

\* the texts of the fragments that have one, in order
RECURSIVE NonEmptyTexts(_)
NonEmptyTexts(frags) ==
    IF frags = <<>> THEN <<>>
    ELSE IF Head(frags).text = <<>> THEN NonEmptyTexts(Tail(frags))
    ELSE <<Head(frags).text>> \o NonEmptyTexts(Tail(frags))

\* full_text with the fragments' texts put end to end, nothing between them
full_text_NoSeparator(c) == Join(NonEmptyTexts(c.fragments), <<>>)

\* Corpus.full_text
full_text(c) == Join(NonEmptyTexts(c.fragments), <<" ">>)

----------------------------------------------------------------------------
(* The document, as the access adapter exposes it.                         *)
(*                                                                         *)
(* A document that opens has one page (page 0).  Its character data sits   *)
(* in up to eight places: on the page outside any layer (base), on the     *)
(* page inside an optional-content layer (layer), in an annotation, a form *)
(* widget, the metadata, an embedded file, an unrendered Form XObject of   *)
(* the page's resources (form), and the bytes of an image of width and     *)
(* height 0 (image), which the page's resources name when imageRef holds   *)
(* and nothing names otherwise; when imageForm holds the dictionary of the *)
(* image holds a /Subtype /Form marker besides its /Subtype /Image.        *)
(* listedAs is the resource type under which the page's resources name    *)
(* the form and the image; when formRes holds the dictionary of the form   *)
(* holds /Resources, and formRefs are the "N 0 R" references its text      *)
(* holds, in order.  inline is a parenthesized string in the dictionary of *)
(* the object inlineAt (the catalog, or the object of the content stream). *)
(* layerOn is the layer's stored visibility,                               *)
(* ocapi whether the optional-content API reports a configuration, fault   *)
(* the adapter call that raises on this document ("none" for none;         *)
(* "get_text_layer" for a page whose text cannot be read while the layer   *)
(* is visible).                                                            *)
(***************************************************************************)

\* object ids of the object table
Xref ==
    [catalog |-> 1, page |-> 2, contents |-> 3, ocg |-> 4, form |-> 5,
     image |-> 6, embedded |-> 7]

NullObject ==
    [type |-> "", subtype |-> "", also |-> "", zero |-> FALSE, refs |-> <<>>,
     contents |-> <<>>, resources |-> FALSE, ocmark |-> FALSE,
     ocprops |-> <<>>, parens |-> <<>>, stream |-> <<>>]

\* the page's content stream: the base text shown, then the layer's text
\* shown inside its marked-content section, which names the layer by a
\* property of the page's resources, or by the id of its object (ocRef)
ContentStream(d) ==
    (IF d.base = <<>> THEN <<>>
     ELSE <<"(">> \o d.base \o <<")", " ", "T", "j", "\n">>)
    \o
    (IF d.layer = <<>> THEN <<>>
     ELSE <<"/", "O", "C", " ">>
          \o (IF d.ocRef THEN <<"4", " ", "0", " ", "R">>
              ELSE <<"/", "M", "C", "0">>)
          \o <<" ", "B", "D", "C", "\n", "(">>
          \o d.layer
          \o <<")", " ", "T", "j", "\n", "E", "M", "C", "\n">>)

\* the object table: what xref_object and xref_stream give for each id.  Of
\* an object's dictionary text the model keeps what the extractors look
\* for: /Type, /Subtype, zero /Width or /Height, the "N 0 R" references in
\* order, the /Contents references, /Resources, the /OCGs or /Usage marker,
\* the references inside /OCProperties, and the parenthesized strings
Objects(d) ==
    << [NullObject EXCEPT
            !.type = "Catalog",
            !.parens = IF d.inlineAt = Xref.catalog /\ Len(d.inline) >= 2
                       THEN <<d.inline>> ELSE <<>>,
            !.refs = IF d.layer = <<>> THEN <<Xref.page>>
                     ELSE <<Xref.page, Xref.ocg, Xref.ocg>>,
            !.ocmark = (d.layer # <<>>),
            !.ocprops = IF d.layer = <<>> THEN <<>> ELSE <<Xref.ocg, Xref.ocg>>],
       [NullObject EXCEPT
            !.type = "Page",
            !.refs = <<Xref.catalog, Xref.contents>>
                     \o (IF d.form = <<>> THEN <<>> ELSE <<Xref.form>>)
                     \o (IF d.image # <<>> /\ d.imageRef
                         THEN <<Xref.image>> ELSE <<>>)
                     \o (IF d.layer = <<>> THEN <<>> ELSE <<Xref.ocg>>),
            !.contents = <<Xref.contents>>,
            !.resources = TRUE],
       [NullObject EXCEPT
            !.parens = IF d.inlineAt = Xref.contents /\ Len(d.inline) >= 2
                       THEN <<d.inline>> ELSE <<>>,
            !.stream = ContentStream(d)],
       IF d.layer = <<>> THEN NullObject
       ELSE [NullObject EXCEPT !.type = "OCG"],
       IF d.form = <<>> THEN NullObject
       ELSE [NullObject EXCEPT
                !.subtype = "Form",
                !.resources = d.formRes,
                !.refs = d.formRefs,
                !.stream = <<"(">> \o d.form \o <<")", " ", "T", "j">>],
       IF d.image = <<>> THEN NullObject
       ELSE [NullObject EXCEPT
                !.subtype = "Image", !.zero = TRUE,
                !.also = IF d.imageForm THEN "Form" ELSE "",
                !.stream = <<"NUL">> \o d.image \o <<"NUL">>],
       IF d.embfile = <<>> THEN NullObject
       ELSE [NullObject EXCEPT !.type = "EmbeddedFile", !.stream = d.embfile] >>

\* the dictionary text of obj holds the marker /Subtype /name
HasSubtype(obj, name) == name \in {obj.subtype, obj.also}

\* doc.xref_length()
xref_length(d) == Len(Objects(d)) + 1

\* page.get_resources(): the (type, xref) pairs of the page's resources,
\* listed under the resource type d.listedAs
get_resources(d) ==
    (IF d.form = <<>> THEN <<>> ELSE <<[type |-> d.listedAs, xref |-> Xref.form]>>)
    \o (IF d.image # <<>> /\ d.imageRef
        THEN <<[type |-> d.listedAs, xref |-> Xref.image]>> ELSE <<>>)

\* the lines of text the layout of the page holds when the layer's
\* visibility is visible
LayoutLines(d, visible) ==
    (IF d.base = <<>> THEN <<>> ELSE <<d.base>>)
    \o (IF d.layer # <<>> /\ visible THEN <<d.layer>> ELSE <<>>)

\* page.get_text("text"): every line, each ended by a newline
RECURSIVE LinesText(_)
LinesText(lines) ==
    IF lines = <<>> THEN <<>>
    ELSE Head(lines) \o <<"\n">> \o LinesText(Tail(lines))

get_text(d, visible) == LinesText(LayoutLines(d, visible))

\* page.get_text("text") raises: on every call, or (fault "get_text_layer")
\* when the text of the layer is part of the layout
GetTextRaises(d, visible) ==
    \/ d.fault = "get_text"
    \/ d.fault = "get_text_layer" /\ d.layer # <<>> /\ visible

\* the layers doc.layer_ui_configs() lists: the layer, when the
\* optional-content API reports a configuration
HasUiLayer(d) == d.ocapi /\ d.layer # <<>>

----------------------------------------------------------------------------
(* Surface extractors.  Each gives the fragments it appends and whether an *)
(* exception leaves it (raised).                                           *)
(***************************************************************************)

Loc(tag) == Some(<<tag>>)

LocAt(tag, n) == Some(<<tag, n>>)

Extracted(frags, raised) == [frags |-> frags, raised |-> raised]

\* the Tokenizer's fragment for each of the streams xrefs, lines 146-161:
\* a stream that cannot be fetched is passed over
RECURSIVE ContentStreamFragments(_, _)
ContentStreamFragments(d, xrefs) ==
    IF xrefs = <<>> THEN <<>>
    ELSE LET stream == Objects(d)[Head(xrefs)].stream
             extracted == _extract_text_from_content_stream(stream)
         IN  (IF d.fault # "xref_stream" /\ stream # <<>> /\ Strip(extracted) # <<>>
              THEN <<TextFragment(Strip(extracted), "content", Some(0),
                                  LocAt("content_stream_xref", Head(xrefs)))>>
              ELSE <<>>)
             \o ContentStreamFragments(d, Tail(xrefs))

\* _extract_content_streams, for the one page
_extract_content_streams(d, visible) ==
    IF GetTextRaises(d, visible) THEN Extracted(<<>>, TRUE)
    ELSE Extracted(
            (IF Strip(get_text(d, visible)) # <<>>
             THEN <<TextFragment(Strip(get_text(d, visible)), "content", Some(0), None)>>
             ELSE <<>>)
            \o (IF d.fault = "xref_object" THEN <<>>
                ELSE ContentStreamFragments(d, Objects(d)[Xref.page].contents)),
            FALSE)

\* _extract_annotations: the page's one annotation has a content and
\* neither title nor subject
_extract_annotations(d) ==
    IF d.fault = "annots" THEN Extracted(<<>>, TRUE)
    ELSE LET info == [content |-> d.annot, title |-> <<>>, subject |-> <<>>]
         IN  Extracted(
                (IF info.content # <<>>
                 THEN <<TextFragment(info.content, "annotation", Some(0), Loc("annot"))>>
                 ELSE <<>>)
                \o (IF info.title # <<>>
                    THEN <<TextFragment(info.title, "annotation", Some(0), Loc("annot_title"))>>
                    ELSE <<>>)
                \o (IF info.subject # <<>>
                    THEN <<TextFragment(info.subject, "annotation", Some(0), Loc("annot_subject"))>>
                    ELSE <<>>),
                FALSE)

\* _extract_form_fields: the page's one widget
_extract_form_fields(d) ==
    IF d.fault = "widgets" THEN Extracted(<<>>, TRUE)
    ELSE Extracted(
            IF d.widget # <<>>
            THEN <<TextFragment(d.widget, "form_field", Some(0), Loc("field"))>>
            ELSE <<>>,
            FALSE)

\* _extract_metadata: the metadata map has the one key title
_extract_metadata(d) ==
    IF d.fault = "metadata" THEN Extracted(<<>>, TRUE)
    ELSE Extracted(
            IF d.meta # <<>> /\ Strip(d.meta) # <<>>
            THEN <<TextFragment(Strip(d.meta), "metadata", None, Loc("meta"))>>
            ELSE <<>>,
            FALSE)

\* the walk's state: the fragments found and the object ids seen so far
Walk(frags, seen) == [frags |-> frags, seen |-> seen]

\* the state of the object-graph walk: the fragments found, seen_xrefs, the
\* number of calls of _extract_xobject_by_xref in progress, and the calls
\* made so far in call order, each with its object id and its nesting depth
GraphWalk(frags) == [frags |-> frags, seen |-> {}, depth |-> 0, visits |-> <<>>]

\* xref is added to seen_xrefs
Seen(w, xref) == [w EXCEPT !.seen = @ \cup {xref}]

\* lines 311-371: the fragments of the object itself
XObjectFragments(d, xref, page) ==
    LET obj == Objects(d)[xref]
        is_image == HasSubtype(obj, "Image")
        is_form == HasSubtype(obj, "Form")
        location == IF is_image /\ obj.zero THEN LocAt("0x0_image_xref", xref)
                    ELSE IF is_image THEN LocAt("image_xref", xref)
                    ELSE LocAt("xref", xref)
        extracted == _extract_text_from_content_stream(obj.stream)
        readable == _extract_strings_from_binary(obj.stream, 3)
    IN  IF obj.stream # <<>> /\ (is_form \/ is_image)
        THEN (IF extracted # <<>>
              THEN <<TextFragment(extracted,
                                  IF is_image THEN "embedded" ELSE "xobject",
                                  page, location)>>
              ELSE <<>>)
             \o (IF is_image /\ readable # <<>>
                 THEN <<TextFragment(readable, "embedded", page, location)>>
                 ELSE <<>>)
        ELSE <<>>

RECURSIVE _extract_xobject_by_xref(_, _, _, _)
RECURSIVE _extract_nested_resources(_, _, _, _)

\* _extract_xobject_by_xref: a fault of either adapter call, or an id the
\* object table does not hold, ends the visit
_extract_xobject_by_xref(d, xref, page, w) ==
    LET called == [w EXCEPT !.visits = Append(@, [xref |-> xref,
                                                  depth |-> w.depth + 1])]
    IN  IF \/ d.fault \in {"xref_object", "xref_stream"}
           \/ xref \notin 1..Len(Objects(d))
        THEN called
        ELSE LET own == [called EXCEPT
                            !.frags = @ \o XObjectFragments(d, xref, page),
                            !.depth = @ + 1]
                 nested ==
                    IF Objects(d)[xref].resources
                    THEN _extract_nested_resources(d, Objects(d)[xref].refs,
                                                   page, own)
                    ELSE own
             IN  [nested EXCEPT !.depth = @ - 1]

\* a walk of the references in which a visit works on a copy of seen_xrefs:
\* the ids it adds are gone when it returns
RECURSIVE _extract_nested_resources_SeenByValue(_, _, _, _)
_extract_nested_resources_SeenByValue(d, refs, page, w) ==
    IF refs = <<>> THEN w
    ELSE IF Head(refs) \in w.seen
    THEN _extract_nested_resources_SeenByValue(d, Tail(refs), page, w)
    ELSE LET marked == Seen(w, Head(refs))
             visited == _extract_xobject_by_xref(d, Head(refs), page, marked)
         IN  _extract_nested_resources_SeenByValue(d, Tail(refs), page,
                [visited EXCEPT !.seen = marked.seen])

\* _extract_nested_resources: every reference of the dictionary text not
\* seen yet is marked seen and visited
_extract_nested_resources(d, refs, page, w) ==
    IF refs = <<>> THEN w
    ELSE IF Head(refs) \in w.seen
    THEN _extract_nested_resources(d, Tail(refs), page, w)
    ELSE _extract_nested_resources(d, Tail(refs), page,
            _extract_xobject_by_xref(d, Head(refs), page,
                Seen(w, Head(refs))))

\* _extract_page_xobjects_recursive, lines 284-295
RECURSIVE PageResources(_, _, _)
PageResources(d, resources, w) ==
    IF resources = <<>> THEN w
    ELSE IF Head(resources).xref \in w.seen
    THEN PageResources(d, Tail(resources), w)
    ELSE LET marked == Seen(w, Head(resources).xref)
         IN  PageResources(d, Tail(resources),
                IF Head(resources).type = "XObject"
                THEN _extract_xobject_by_xref(d, Head(resources).xref, Some(0), marked)
                ELSE marked)

_extract_page_xobjects_recursive(d, w) ==
    IF d.fault = "get_resources" THEN w
    ELSE PageResources(d, get_resources(d), w)

\* lines 416-435, from object id xref on
RECURSIVE OrphanPass(_, _, _)
OrphanPass(d, xref, w) ==
    IF xref >= xref_length(d) THEN w
    ELSE IF xref \in w.seen \/ d.fault = "xref_object"
    THEN OrphanPass(d, xref + 1, w)
    ELSE LET obj == Objects(d)[xref]
             asForm ==
                IF HasSubtype(obj, "Form")
                THEN _extract_xobject_by_xref(d, xref, None,
                        Seen(w, xref))
                ELSE w
             asImage ==
                IF HasSubtype(obj, "Image")
                THEN _extract_xobject_by_xref(d, xref, None,
                        Seen(asForm, xref))
                ELSE asForm
         IN  OrphanPass(d, xref + 1, asImage)

_extract_orphaned_xobjects(d, w) ==
    IF d.fault = "xref_length" THEN w ELSE OrphanPass(d, 1, w)

\* lines 249-260: a fragment for every span of the page's text
RECURSIVE SpanFragments(_)
SpanFragments(spans) ==
    IF spans = <<>> THEN <<>>
    ELSE (IF Strip(Head(spans)) # <<>>
          THEN <<TextFragment(Strip(Head(spans)), "xobject", Some(0), None)>>
          ELSE <<>>)
         \o SpanFragments(Tail(spans))

\* _extract_xobjects_full, for the one page; each line of the layout is one
\* block of one span
\* lines 245-266: the walk after the spans of the page: the page's
\* resources, then the whole object table
ObjectGraphWalk(d, visible) ==
    _extract_orphaned_xobjects(d,
        _extract_page_xobjects_recursive(d,
            GraphWalk(SpanFragments(LayoutLines(d, visible)))))

_extract_xobjects_full(d, visible) ==
    IF d.fault = "get_text_dict" THEN Extracted(<<>>, TRUE)
    ELSE Extracted(ObjectGraphWalk(d, visible).frags, FALSE)

\* the decimal text of an object id
Digits(n) == <<<<"0">>, <<"1">>, <<"2">>, <<"3">>, <<"4">>, <<"5">>, <<"6">>,
               <<"7">>, <<"8">>, <<"9">>>>[n + 1]

\* line 765: the stream holds "/OC", blanks, the id, blanks, "0", blanks,
\* "R", or holds the text "<id> 0 R"
RefersTo(text, xref) ==
    \/ \E i \in 1..Len(text) :
        LET a == i + 3
            b == a + WsLen(text, a)
            c == b + Len(Digits(xref))
            e == c + WsLen(text, c)
            g == e + 1 + WsLen(text, e + 1)
        IN  /\ g <= Len(text)
            /\ SubSeq(text, i, i + 2) = <<"/", "O", "C">>
            /\ WsLen(text, a) > 0
            /\ SubSeq(text, b, c - 1) = Digits(xref)
            /\ WsLen(text, c) > 0
            /\ text[e] = "0"
            /\ WsLen(text, e + 1) > 0
            /\ text[g] = "R"
    \/ Contains(text, Digits(xref) \o <<" ", "0", " ", "R">>)

\* the Tokenizer's fragment for the stream of object xref, when the stream
\* can be fetched, is not empty and satisfies wanted
StreamFragment(d, xref, wanted, page, location) ==
    LET stream == Objects(d)[xref].stream
        extracted == _extract_text_from_content_stream(stream)
    IN  IF d.fault # "xref_stream" /\ stream # <<>> /\ wanted /\ extracted # <<>>
        THEN <<TextFragment(extracted, "content", page, location)>>
        ELSE <<>>

\* _extract_ocg_content_streams: every reference of the page object whose
\* stream holds a marked-content operator
RECURSIVE OcgContentRefs(_, _)
OcgContentRefs(d, refs) ==
    IF refs = <<>> THEN <<>>
    ELSE LET stream == Objects(d)[Head(refs)].stream
         IN  StreamFragment(d, Head(refs),
                            Contains(stream, <<"/", "O", "C">>)
                                \/ Contains(stream, <<"B", "D", "C">>),
                            Some(0), LocAt("ocg_content_xref", Head(refs)))
             \o OcgContentRefs(d, Tail(refs))

_extract_ocg_content_streams(d) ==
    IF d.fault = "xref_object" \/ Objects(d)[Xref.page].contents = <<>> THEN <<>>
    ELSE OcgContentRefs(d, Objects(d)[Xref.page].refs)

\* _extract_ocg_content_by_reference: the page's /Contents streams that
\* refer to the layer object
RECURSIVE OcgByRefs(_, _, _)
OcgByRefs(d, ocg_xref, refs) ==
    IF refs = <<>> THEN <<>>
    ELSE StreamFragment(d, Head(refs),
                        RefersTo(Objects(d)[Head(refs)].stream, ocg_xref),
                        Some(0), LocAt("hidden_ocg_xref", ocg_xref))
         \o OcgByRefs(d, ocg_xref, Tail(refs))

_extract_ocg_content_by_reference(d, ocg_xref) ==
    IF d.fault = "xref_object" THEN <<>>
    ELSE OcgByRefs(d, ocg_xref, Objects(d)[Xref.page].contents)

\* _extract_hidden_ocg_from_structure, from object id xref on
RECURSIVE HiddenOcgFrom(_, _)
HiddenOcgFrom(d, xref) ==
    IF xref >= xref_length(d) THEN <<>>
    ELSE LET obj == Objects(d)[xref]
             is_ocg == obj.type = "OCG" \/ obj.ocmark
         IN  (IF d.fault # "xref_object" /\ is_ocg
              THEN _extract_ocg_content_by_reference(d, xref)
                   \o StreamFragment(d, xref, TRUE, None,
                                     LocAt("ocg_object_xref", xref))
              ELSE <<>>)
             \o HiddenOcgFrom(d, xref + 1)

_extract_hidden_ocg_from_structure(d) ==
    IF d.fault = "xref_length" THEN <<>> ELSE HiddenOcgFrom(d, 1)

\* lines 815-834: the streams of the distinct references of /OCProperties
RECURSIVE OcPropsFragments(_, _, _)
OcPropsFragments(d, refs, seen) ==
    IF refs = <<>> THEN <<>>
    ELSE IF Head(refs) \in seen THEN OcPropsFragments(d, Tail(refs), seen)
    ELSE StreamFragment(d, Head(refs), TRUE, None,
                        LocAt("ocg_ocprops_xref", Head(refs)))
         \o OcPropsFragments(d, Tail(refs), seen \cup {Head(refs)})

\* _extract_ocg_fallback
_extract_ocg_fallback(d) ==
    LET catalogs == {i \in 1..(xref_length(d) - 1) : Objects(d)[i].type = "Catalog"}
    IN  IF d.fault \in {"xref_length", "xref_object"} \/ catalogs = {} THEN <<>>
        ELSE OcPropsFragments(d, Objects(d)[SetMin(catalogs)].ocprops, {})

\* lines 587-601: a fragment for every block of the page's text
RECURSIVE BlockFragments(_)
BlockFragments(spans) ==
    IF spans = <<>> THEN <<>>
    ELSE LET block_text == IF Head(spans) # <<>> THEN Head(spans) \o <<" ">> ELSE <<>>
         IN  (IF Strip(block_text) # <<>>
              THEN <<TextFragment(Strip(block_text), "content", Some(0),
                                  Loc("ocg_dict_extraction"))>>
              ELSE <<>>)
             \o BlockFragments(Tail(spans))

\* _extract_ocg_layers, entered with the layer's visibility visible; gives
\* the fragments and the visibility it leaves.  Every listed layer is
\* switched on for the extraction and switched back at the end; an
\* exception inside goes to the fallback, past the switching back
_extract_ocg_layers(d, visible) ==
    IF d.fault = "get_oc"
    THEN [frags |-> _extract_ocg_fallback(d), visible |-> visible]
    ELSE IF ~d.ocapi
    THEN [frags |-> <<>>, visible |-> visible]
    ELSE LET original_states == visible
             enabled == visible \/ HasUiLayer(d)
         IN  IF GetTextRaises(d, enabled)
             THEN [frags |-> _extract_ocg_fallback(d), visible |-> enabled]
             ELSE [frags |->
                        (IF Strip(get_text(d, enabled)) # <<>>
                         THEN <<TextFragment(Strip(get_text(d, enabled)), "content",
                                             Some(0), Loc("ocg_all_layers_enabled"))>>
                         ELSE <<>>)
                        \o (IF d.fault = "get_text_dict" THEN <<>>
                            ELSE BlockFragments(LayoutLines(d, enabled)))
                        \o _extract_ocg_content_streams(d)
                        \o _extract_hidden_ocg_from_structure(d),
                   visible |-> IF HasUiLayer(d) THEN original_states ELSE enabled]

\* the name under which the document's one file is embedded
EmbeddedName == <<"f">>

\* lines 849-892: the embedded file's name, description and content
EmbeddedFiles(d) ==
    IF d.fault = "embfile" \/ d.embfile = <<>> THEN <<>>
    ELSE LET info == [name |-> EmbeddedName, desc |-> <<>>]
         IN  (IF info.name # <<>>
              THEN <<TextFragment(info.name, "embedded", None, LocAt("embfile_name", 0))>>
              ELSE <<>>)
             \o (IF info.desc # <<>>
                 THEN <<TextFragment(info.desc, "embedded", None, LocAt("embfile_desc", 0))>>
                 ELSE <<>>)
             \o (IF Strip(d.embfile) # <<>>
                 THEN <<TextFragment(Strip(d.embfile), "embedded", None,
                                     LocAt("embfile_content", 0))>>
                 ELSE <<>>)

\* _extract_embedded_via_xref, from object id xref on
RECURSIVE EmbeddedFrom(_, _)
EmbeddedFrom(d, xref) ==
    IF xref >= xref_length(d) THEN <<>>
    ELSE LET obj == Objects(d)[xref]
         IN  (IF d.fault = "xref_object" THEN <<>>
              ELSE (IF obj.type = "EmbeddedFile" /\ d.fault # "xref_stream"
                       /\ obj.stream # <<>> /\ Strip(obj.stream) # <<>>
                    THEN <<TextFragment(Strip(obj.stream), "embedded", None,
                                        LocAt("embstream_xref", xref))>>
                    ELSE <<>>)
                   \o (IF obj.type = "Filespec" /\ obj.parens # <<>>
                       THEN <<TextFragment(Head(obj.parens), "embedded", None,
                                           LocAt("filespec_xref", xref))>>
                       ELSE <<>>))
             \o EmbeddedFrom(d, xref + 1)

_extract_embedded_via_xref(d) ==
    IF d.fault = "xref_length" THEN <<>> ELSE EmbeddedFrom(d, 1)

_extract_embedded_full(d) == EmbeddedFiles(d) \o _extract_embedded_via_xref(d)

\* lines 1036-1039 and 1093-1097: the strings of the dictionary text that
\* are at least three characters long once unescaped
RECURSIVE InlineStrings(_)
InlineStrings(parens) ==
    IF parens = <<>> THEN <<>>
    ELSE (IF Len(_unescape_pdf_string(Head(parens))) >= 3
          THEN <<_unescape_pdf_string(Head(parens))>>
          ELSE <<>>)
         \o InlineStrings(Tail(parens))

\* lines 1054-1099: the decodings of the stream of object xref
TextsFound(d, xref) ==
    LET obj == Objects(d)[xref]
        is_zero_size_image == HasSubtype(obj, "Image") /\ obj.zero
        extracted == _extract_text_from_content_stream(obj.stream)
        readable == _extract_strings_from_binary(obj.stream, 3)
    IN  (IF (HasSubtype(obj, "Form") \/ is_zero_size_image) /\ extracted # <<>>
         THEN <<extracted>> ELSE <<>>)
        \o <<obj.stream, obj.stream>>
        \o (IF readable # <<>> THEN <<readable>> ELSE <<>>)
        \o InlineStrings(obj.parens)

\* lines 1104-1123: a fragment for every text whose normal form is new
RECURSIVE UniqueFragments(_, _, _, _)
UniqueFragments(texts, source, xref, w) ==
    IF texts = <<>> THEN w
    ELSE LET normalized == Normalize(Head(texts))
         IN  UniqueFragments(Tail(texts), source, xref,
                IF Len(normalized) >= 3 /\ ~(normalized \in w.seen)
                THEN Walk(Append(w.frags,
                                 TextFragment(normalized, source, None,
                                              LocAt("xref", xref))),
                          w.seen \cup {normalized})
                ELSE w)

\* lines 1037-1048, for an object with no stream: a fragment for every
\* inline string whose normal form is not empty and new
RECURSIVE InlineFragments(_, _, _, _)
InlineFragments(texts, source, xref, w) ==
    IF texts = <<>> THEN w
    ELSE LET normalized == Normalize(Head(texts))
         IN  InlineFragments(Tail(texts), source, xref,
                IF normalized # <<>> /\ ~(normalized \in w.seen)
                THEN Walk(Append(w.frags,
                                 TextFragment(normalized, source, None,
                                              LocAt("xref", xref))),
                          w.seen \cup {normalized})
                ELSE w)

\* the loop of _extract_all_streams, from object id xref on; w.seen is
\* seen_texts
RECURSIVE AllStreamsFrom(_, _, _)
AllStreamsFrom(d, xref, w) ==
    IF xref >= xref_length(d) THEN w
    ELSE IF d.fault \in {"xref_object", "xref_stream"}
    THEN AllStreamsFrom(d, xref + 1, w)
    ELSE LET obj == Objects(d)[xref]
             source == IF HasSubtype(obj, "Image") /\ obj.zero
                       THEN "embedded" ELSE "raw_stream"
         IN  AllStreamsFrom(d, xref + 1,
                IF obj.stream = <<>>
                THEN InlineFragments(InlineStrings(obj.parens), source, xref, w)
                ELSE UniqueFragments(TextsFound(d, xref), source, xref, w))

\* _extract_all_streams: the length of the object table is asked for
\* outside any handler
_extract_all_streams(d) ==
    IF d.fault = "xref_length" THEN Extracted(<<>>, TRUE)
    ELSE Extracted(AllStreamsFrom(d, 1, Walk(<<>>, {})).frags, FALSE)

\* _extract_ocr, entered with the layer's visibility visible, when the
\* recognizer is installed: gives the fragments, the visibility it leaves
\* and whether rendering raised.  The recognizer reads the lines the
\* rendering shows
_extract_ocr(d, visible) ==
    LET enabled == visible \/ HasUiLayer(d)
        ocr_text == get_text(d, enabled)
    IN  [frags |-> IF d.fault \in {"get_pixmap", "image_to_string"}
                      \/ Strip(ocr_text) = <<>>
                   THEN <<>>
                   ELSE <<TextFragment(Strip(ocr_text), "ocr", Some(0), None)>>,
         visible |-> enabled,
         raised |-> d.fault = "get_pixmap"]

----------------------------------------------------------------------------
(* Match engine: check_corpus *)

\* a source name standing as a Match's source
Label(s) == [name |-> s, of |-> {}]

\* f"multiple_sources({','.join(sorted(S))})"
CompositeLabel(S) == [name |-> "multiple_sources", of |-> S]

Match(pattern, text, source, page, location) ==
    [pattern |-> pattern, text |-> text, source |-> source, page |-> page,
     location |-> location]

\* the location given to every match of the full-text pass
SpanningLocation == <<"spanning_multiple_fragments">>

\* a key of fragment matches that leaves the source out
FragmentKey_NoSource(dp, f, mt) == <<dp.original, "any", f.page, mt>>

\* the key under which the fragment-level pass records a match
FragmentKey(dp, f, mt) == <<dp.original, f.source, f.page, mt>>

\* the key under which the full-text pass records a match
FullTextKey(dp, mt) == <<dp.original, "full_text", None, mt>>

\* lines 137-158: every fragment with a text against every pattern, in order;
\* acc is [matches, seen]
RECURSIVE FragmentPass(_, _, _, _, _)
FragmentPass(frags, pats, i, j, acc) ==
    IF i > Len(frags) THEN acc
    ELSE IF frags[i].text = <<>> \/ j > Len(pats)
    THEN FragmentPass(frags, pats, i + 1, 1, acc)
    ELSE IF ~Search(pats[j].pattern, frags[i].text)
    THEN FragmentPass(frags, pats, i, j + 1, acc)
    ELSE LET mt  == Group0(pats[j].pattern, frags[i].text)
             key == FragmentKey(pats[j], frags[i], mt)
         IN  IF key \in acc.seen
             THEN FragmentPass(frags, pats, i, j + 1, acc)
             ELSE FragmentPass(frags, pats, i, j + 1,
                    [matches |-> Append(acc.matches,
                                    Match(pats[j].original, mt,
                                          Label(frags[i].source),
                                          frags[i].page, frags[i].location)),
                     seen |-> acc.seen \cup {key}])

\* lines 186-193: the fragment holds some 3-character piece of the match
Contributes(f, mt) ==
    /\ f.text # <<>>
    /\ Len(mt) > SpanMinLen
    /\ \E i \in 1..(Len(mt) - OverlapLen + 1) :
          Contains(LowerText(f.text),
                   SubSeq(LowerText(mt), i, i + OverlapLen - 1))

\* lines 177-196: the source a spanning match is given
SpanningSource(frags, mt) ==
    LET contributing ==
            {frags[i].source : i \in {k \in 1..Len(frags) : Contributes(frags[k], mt)}}
    IN  IF Cardinality(contributing) > 1 THEN CompositeLabel(contributing)
        ELSE IF contributing = {} THEN Label("multiple_sources")
        ELSE Label(CHOOSE s \in contributing : TRUE)

\* a full-text pass that records no key: a match is added for every
\* pattern of the list that is found
RECURSIVE FullTextPass_NoSeen(_, _, _, _, _)
FullTextPass_NoSeen(frags, full, pats, j, acc) ==
    IF j > Len(pats) THEN acc
    ELSE IF ~Search(pats[j].pattern, full)
    THEN FullTextPass_NoSeen(frags, full, pats, j + 1, acc)
    ELSE LET mt == Group0(pats[j].pattern, full)
         IN  FullTextPass_NoSeen(frags, full, pats, j + 1,
                [matches |-> Append(acc.matches,
                                Match(pats[j].original, mt,
                                      SpanningSource(frags, mt), None,
                                      Some(SpanningLocation))),
                 seen |-> acc.seen])

\* lines 165-204: every pattern against the full text
RECURSIVE FullTextPass(_, _, _, _, _)
FullTextPass(frags, full, pats, j, acc) ==
    IF j > Len(pats) THEN acc
    ELSE IF ~Search(pats[j].pattern, full)
    THEN FullTextPass(frags, full, pats, j + 1, acc)
    ELSE LET mt  == Group0(pats[j].pattern, full)
             key == FullTextKey(pats[j], mt)
         IN  IF key \in acc.seen
             THEN FullTextPass(frags, full, pats, j + 1, acc)
             ELSE FullTextPass(frags, full, pats, j + 1,
                    [matches |-> Append(acc.matches,
                                    Match(pats[j].original, mt,
                                          SpanningSource(frags, mt), None,
                                          Some(SpanningLocation))),
                     seen |-> acc.seen \cup {key}])

check_corpus(c, pats) ==
    LET byFragment == FragmentPass(c.fragments, pats, 1, 1,
                                  [matches |-> <<>>, seen |-> {}])
    IN  IF full_text(c) # <<>>
        THEN FullTextPass(c.fragments, full_text(c), pats, 1, byFragment).matches
        ELSE byFragment.matches

----------------------------------------------------------------------------
(* Verify orchestrator: the part of verify after extraction *)

VerifyResult(exit_code, matches, error, surfaces_checked, ocr_performed) ==
    [exit_code |-> exit_code, matches |-> matches, error |-> error,
     surfaces_checked |-> surfaces_checked, ocr_performed |-> ocr_performed]

\* no result yet: the call has not returned
NoResult == VerifyResult("none", <<>>, None, <<>>, FALSE)

\* a decision that hands the matches over under PASS
VerifyDecide_PassWithMatches(c, pats) ==
    VerifyResult("PASS", IF pats = <<>> THEN <<>> ELSE check_corpus(c, pats), None,
                 c.surfaces_extracted, c.ocr_performed)

\* core.py lines 89-115
VerifyDecide(c, pats) ==
    IF pats = <<>>
    THEN VerifyResult("PASS", <<>>, None, c.surfaces_extracted, c.ocr_performed)
    ELSE IF check_corpus(c, pats) # <<>>
    THEN VerifyResult("FAIL", check_corpus(c, pats), None,
                      c.surfaces_extracted, c.ocr_performed)
    ELSE VerifyResult("PASS", <<>>, None, c.surfaces_extracted, c.ocr_performed)

\* extract_all as one computation on a document that opens: the corpus
\* built, and whether an exception left it; the steps are the ones the
\* actions below take one at a time
extract_all(d, o) ==
    LET v0 == d.layerOn
        s1 == _extract_content_streams(d, v0)
        c1 == [EmptyCorpus EXCEPT !.surfaces_extracted = <<"content_streams">>,
                                  !.fragments = s1.frags]
        s2 == _extract_annotations(d)
        c2 == [c1 EXCEPT !.surfaces_extracted = Append(@, "annotations"),
                         !.fragments = @ \o s2.frags]
        s3 == _extract_form_fields(d)
        c3 == [c2 EXCEPT !.surfaces_extracted = Append(@, "form_fields"),
                         !.fragments = @ \o s3.frags]
        s4 == _extract_metadata(d)
        c4 == [c3 EXCEPT !.surfaces_extracted = Append(@, "metadata"),
                         !.fragments = @ \o s4.frags]
        s5 == _extract_xobjects_full(d, v0)
        c5 == [c4 EXCEPT !.surfaces_extracted = Append(@, "xobjects"),
                         !.fragments = @ \o s5.frags]
        s6 == _extract_ocg_layers(d, v0)
        c6 == [c5 EXCEPT !.surfaces_extracted = Append(@, "ocg_layers"),
                         !.fragments = @ \o s6.frags]
        c7 == [c6 EXCEPT !.surfaces_extracted = Append(@, "embedded"),
                         !.fragments = @ \o _extract_embedded_full(d)]
        s8 == _extract_all_streams(d)
        c8 == [c7 EXCEPT !.surfaces_extracted = Append(@, "all_streams"),
                         !.fragments = @ \o s8.frags]
        s9 == _extract_ocr(d, s6.visible)
        c9 == IF ~o.ocr_ok
              THEN [c8 EXCEPT !.surfaces_extracted = Append(@, "ocr")]
              ELSE [c8 EXCEPT !.surfaces_extracted = Append(@, "ocr"),
                              !.fragments = @ \o s9.frags,
                              !.ocr_performed = TRUE]
    IN  IF s1.raised THEN [corpus |-> c1, raised |-> TRUE]
        ELSE IF s2.raised THEN [corpus |-> c2, raised |-> TRUE]
        ELSE IF s3.raised THEN [corpus |-> c3, raised |-> TRUE]
        ELSE IF s4.raised THEN [corpus |-> c4, raised |-> TRUE]
        ELSE IF s5.raised THEN [corpus |-> c5, raised |-> TRUE]
        ELSE IF s8.raised THEN [corpus |-> c8, raised |-> TRUE]
        ELSE IF ~(o.ocr_mode \in {"auto", "always"})
        THEN [corpus |-> c8, raised |-> FALSE]
        ELSE [corpus |-> c9, raised |-> o.ocr_ok /\ s9.raised]

\* verify as one computation: core.py lines 69-115
verify(d, pats, o) ==
    IF ~d.opens
    THEN VerifyResult("ERROR", <<>>, Some("Failed to open PDF"), <<>>, FALSE)
    ELSE CHOOSE r \in
            { IF e.raised
              THEN VerifyResult("ERROR", <<>>, Some("Unexpected error reading PDF"),
                                <<>>, FALSE)
              ELSE VerifyDecide(e.corpus, pats) : e \in {extract_all(d, o)} } : TRUE

\* no document: the corpus is given
NoDoc == [opens |-> FALSE]

\* the default arguments of verify
DefaultOpts == [ocr_mode |-> "off", ocr_ok |-> FALSE, strict |-> FALSE]

\* main is not running
NoCli == [pc |-> "none"]

\* no document is open
NoHandle == [open |-> FALSE, visible |-> FALSE]

\* the first call of verify: none came before it
FirstCall == [kind |-> "first", result |-> NoResult]

\* an opening that, on a repeated call, takes the layer's visibility from
\* the handle of the call before
Open_KeepsVisibility ==
    /\ pc = "start"
    /\ doc.opens
    /\ handle' = [open |-> TRUE,
                  visible |-> IF prev.kind = "same" THEN handle.visible
                              ELSE doc.layerOn]
    /\ corpus' = EmptyCorpus
    /\ pc' = "content_streams"
    /\ UNCHANGED <<doc, patterns, result, opts, prev, cli>>

\* extract_all lines 87-90: the document opens
Open ==
    /\ pc = "start"
    /\ doc.opens
    /\ handle' = [open |-> TRUE, visible |-> doc.layerOn]
    /\ corpus' = EmptyCorpus
    /\ pc' = "content_streams"
    /\ UNCHANGED <<doc, patterns, result, opts, prev, cli>>

\* extract_all lines 87-90 and verify lines 76-80: the document does not
\* open
OpenFail ==
    /\ pc = "start"
    /\ ~doc.opens
    /\ result' = VerifyResult("ERROR", <<>>, Some("Failed to open PDF"), <<>>, FALSE)
    /\ pc' = "done"
    /\ UNCHANGED <<doc, patterns, corpus, handle, opts, prev, cli>>

\* the corpus after an extractor named surface appended frags
Appended(c, surface, frags) ==
    [c EXCEPT !.surfaces_extracted = Append(@, surface),
              !.fragments = @ \o frags]

ExtractContentStreams ==
    /\ pc = "content_streams"
    /\ LET r == _extract_content_streams(doc, handle.visible)
       IN  /\ corpus' = Appended(corpus, "content_streams", r.frags)
           /\ pc' = IF r.raised THEN "raise" ELSE "annotations"
    /\ UNCHANGED <<doc, patterns, result, handle, opts, prev, cli>>

ExtractAnnotations ==
    /\ pc = "annotations"
    /\ LET r == _extract_annotations(doc)
       IN  /\ corpus' = Appended(corpus, "annotations", r.frags)
           /\ pc' = IF r.raised THEN "raise" ELSE "form_fields"
    /\ UNCHANGED <<doc, patterns, result, handle, opts, prev, cli>>

ExtractFormFields ==
    /\ pc = "form_fields"
    /\ LET r == _extract_form_fields(doc)
       IN  /\ corpus' = Appended(corpus, "form_fields", r.frags)
           /\ pc' = IF r.raised THEN "raise" ELSE "metadata"
    /\ UNCHANGED <<doc, patterns, result, handle, opts, prev, cli>>

ExtractMetadata ==
    /\ pc = "metadata"
    /\ LET r == _extract_metadata(doc)
       IN  /\ corpus' = Appended(corpus, "metadata", r.frags)
           /\ pc' = IF r.raised THEN "raise" ELSE "xobjects"
    /\ UNCHANGED <<doc, patterns, result, handle, opts, prev, cli>>

ExtractXObjects ==
    /\ pc = "xobjects"
    /\ LET r == _extract_xobjects_full(doc, handle.visible)
       IN  /\ corpus' = Appended(corpus, "xobjects", r.frags)
           /\ pc' = IF r.raised THEN "raise" ELSE "ocg_layers"
    /\ UNCHANGED <<doc, patterns, result, handle, opts, prev, cli>>

ExtractOcgLayers ==
    /\ pc = "ocg_layers"
    /\ LET r == _extract_ocg_layers(doc, handle.visible)
       IN  /\ corpus' = Appended(corpus, "ocg_layers", r.frags)
           /\ handle' = [handle EXCEPT !.visible = r.visible]
    /\ pc' = "embedded"
    /\ UNCHANGED <<doc, patterns, result, opts, prev, cli>>

\* a step that names the surface only when it found a fragment
ExtractEmbedded_NamesOnlyWhenFound ==
    /\ pc = "embedded"
    /\ corpus' = IF _extract_embedded_full(doc) = <<>> THEN corpus
                 ELSE Appended(corpus, "embedded", _extract_embedded_full(doc))
    /\ pc' = "all_streams"
    /\ UNCHANGED <<doc, patterns, result, handle, opts, prev, cli>>

ExtractEmbedded ==
    /\ pc = "embedded"
    /\ corpus' = Appended(corpus, "embedded", _extract_embedded_full(doc))
    /\ pc' = "all_streams"
    /\ UNCHANGED <<doc, patterns, result, handle, opts, prev, cli>>

\* a step that goes on to OCR under mode always only
ExtractAllStreams_AlwaysOnly ==
    /\ pc = "all_streams"
    /\ LET r == _extract_all_streams(doc)
       IN  /\ corpus' = Appended(corpus, "all_streams", r.frags)
           /\ pc' = IF r.raised THEN "raise"
                    ELSE IF opts.ocr_mode = "always" THEN "ocr"
                    ELSE "close"
    /\ UNCHANGED <<doc, patterns, result, handle, opts, prev, cli>>

\* _extract_all_streams, and the test of ocr_mode at line 108
ExtractAllStreams ==
    /\ pc = "all_streams"
    /\ LET r == _extract_all_streams(doc)
       IN  /\ corpus' = Appended(corpus, "all_streams", r.frags)
           /\ pc' = IF r.raised THEN "raise"
                    ELSE IF opts.ocr_mode \in {"auto", "always"} THEN "ocr"
                    ELSE "close"
    /\ UNCHANGED <<doc, patterns, result, handle, opts, prev, cli>>

\* an OCR step that raises when the recognizer is not there
ExtractOcr_RaisesWithoutRecognizer ==
    /\ pc = "ocr"
    /\ IF ~opts.ocr_ok
       THEN /\ corpus' = Appended(corpus, "ocr", <<>>)
            /\ pc' = "raise"
            /\ UNCHANGED handle
       ELSE LET r == _extract_ocr(doc, handle.visible)
            IN  /\ corpus' = [Appended(corpus, "ocr", r.frags)
                                EXCEPT !.ocr_performed = TRUE]
                /\ handle' = [handle EXCEPT !.visible = r.visible]
                /\ pc' = IF r.raised THEN "raise" ELSE "close"
    /\ UNCHANGED <<doc, patterns, result, opts, prev, cli>>

\* _extract_ocr: without the recognizer it returns after naming the surface
ExtractOcr ==
    /\ pc = "ocr"
    /\ IF ~opts.ocr_ok
       THEN /\ corpus' = Appended(corpus, "ocr", <<>>)
            /\ pc' = "close"
            /\ UNCHANGED handle
       ELSE LET r == _extract_ocr(doc, handle.visible)
            IN  /\ corpus' = [Appended(corpus, "ocr", r.frags)
                                EXCEPT !.ocr_performed = TRUE]
                /\ handle' = [handle EXCEPT !.visible = r.visible]
                /\ pc' = IF r.raised THEN "raise" ELSE "close"
    /\ UNCHANGED <<doc, patterns, result, opts, prev, cli>>

\* extract_all lines 111-114: the document is closed, on the way out of
\* the extraction and on the way out of an exception
Close ==
    /\ pc \in {"close", "raise"}
    /\ handle' = [handle EXCEPT !.open = FALSE]
    /\ pc' = IF pc = "close" THEN "extracted" ELSE "failed"
    /\ UNCHANGED <<doc, patterns, corpus, result, opts, prev, cli>>

\* a return that reports the surfaces the extraction reached before the
\* exception
ReturnError_KeepsSurfaces ==
    /\ pc = "failed"
    /\ result' = VerifyResult("ERROR", <<>>, Some("Unexpected error reading PDF"),
                              corpus.surfaces_extracted, corpus.ocr_performed)
    /\ pc' = "done"
    /\ UNCHANGED <<doc, patterns, corpus, handle, opts, prev, cli>>

\* verify lines 81-85: an exception other than ExtractionError left
\* extract_all
ReturnError ==
    /\ pc = "failed"
    /\ result' = VerifyResult("ERROR", <<>>, Some("Unexpected error reading PDF"),
                              <<>>, FALSE)
    /\ pc' = "done"
    /\ UNCHANGED <<doc, patterns, corpus, handle, opts, prev, cli>>

\* verify, from the returned corpus to the returned result
Decide ==
    /\ pc = "extracted"
    /\ result' = VerifyDecide(corpus, patterns)
    /\ pc' = "done"
    /\ UNCHANGED <<doc, patterns, corpus, handle, opts, prev, cli>>

\* verify is called again on the same file with the same arguments
Again ==
    /\ pc = "done"
    /\ prev.kind = "first"
    /\ prev' = [kind |-> "same", result |-> result]
    /\ result' = NoResult
    /\ corpus' = EmptyCorpus
    /\ pc' = "start"
    /\ UNCHANGED <<doc, patterns, handle, opts, cli>>

\* verify is called with the same arguments on the file that differs from
\* this one in the stored visibility of its layer only
AgainTwin ==
    /\ pc = "done"
    /\ prev.kind = "first"
    /\ doc.opens
    /\ doc.layer # <<>>
    /\ doc' = [doc EXCEPT !.layerOn = ~@]
    /\ prev' = [kind |-> "twin", result |-> result]
    /\ result' = NoResult
    /\ corpus' = EmptyCorpus
    /\ pc' = "start"
    /\ UNCHANGED <<patterns, handle, opts, cli>>

----------------------------------------------------------------------------
(* The whole program: verify on a document file *)

\* most places of a document that hold character data
MaxFilled == 1

\* the places of a document that can hold character data
Slots == {"base", "layer", "annot", "widget", "meta", "embfile", "form", "image"}

\* the character data a filled place holds
SlotText == <<"a", "b", "a", "b">>

\* the adapter calls that can raise
Faults ==
    {"none", "get_text", "get_text_dict", "annots", "widgets", "metadata",
     "xref_object", "xref_stream", "xref_length", "get_resources", "get_oc",
     "embfile", "get_pixmap", "image_to_string"}

\* the document whose places filled hold character data
DocOf(filled, layerOn, ocapi, fault) ==
    [opens |-> TRUE, fault |-> fault, layerOn |-> layerOn, ocapi |-> ocapi,
     imageRef |-> FALSE, imageForm |-> FALSE,
     formRes |-> FALSE, formRefs |-> <<>>, listedAs |-> "XObject",
     inline |-> <<>>, inlineAt |-> Xref.catalog, ocRef |-> FALSE,
     base    |-> IF "base" \in filled THEN SlotText ELSE <<>>,
     layer   |-> IF "layer" \in filled THEN SlotText ELSE <<>>,
     annot   |-> IF "annot" \in filled THEN SlotText ELSE <<>>,
     widget  |-> IF "widget" \in filled THEN SlotText ELSE <<>>,
     meta    |-> IF "meta" \in filled THEN SlotText ELSE <<>>,
     embfile |-> IF "embfile" \in filled THEN SlotText ELSE <<>>,
     form    |-> IF "form" \in filled THEN SlotText ELSE <<>>,
     image   |-> IF "image" \in filled THEN SlotText ELSE <<>>]

\* a file the adapter cannot open
Unreadable == [DocOf({}, TRUE, FALSE, "none") EXCEPT !.opens = FALSE]

\* the document d with its image named by the page's resources
Referenced(d) == [d EXCEPT !.imageRef = TRUE]

\* the document d with a /Subtype /Form marker in the dictionary of its
\* image
Marked(d) == [d EXCEPT !.imageForm = TRUE]

\* the document d with the parenthesized string text in the dictionary of
\* the object at
Inlined(d, text, at) == [d EXCEPT !.inline = text, !.inlineAt = at]

\* the inline strings: one with a blank run inside, one that ends in blanks
InlineTexts == { SlotText, <<"a", " ", " ", "b">>, <<"a", " ", " ">> }

Docs ==
    {Unreadable} \cup
    { DocOf({"layer"}, layerOn, TRUE, "get_text_layer") : layerOn \in BOOLEAN }
    \cup
    { [DocOf({"layer"}, layerOn, ocapi, fault) EXCEPT !.ocRef = TRUE] :
        layerOn \in BOOLEAN, ocapi \in BOOLEAN, fault \in {"none", "get_oc"} }
    \cup
    { Inlined(DocOf(filled, TRUE, FALSE, "none"), text, at) :
        filled \in {{}, {"base"}, {"embfile"}},
        text \in InlineTexts, at \in {Xref.catalog, Xref.contents} }
    \cup
    { DocOf(filled, layerOn, ocapi, fault) :
        filled \in {S \in SUBSET Slots : Cardinality(S) <= MaxFilled},
        layerOn \in BOOLEAN, ocapi \in BOOLEAN, fault \in Faults }
    \cup
    { Referenced(DocOf(filled, layerOn, ocapi, fault)) :
        filled \in {S \in SUBSET Slots : "image" \in S /\ Cardinality(S) <= MaxFilled},
        layerOn \in BOOLEAN, ocapi \in BOOLEAN, fault \in Faults }
    \cup
    { IF ref THEN Referenced(Marked(DocOf(filled, TRUE, FALSE, fault)))
      ELSE Marked(DocOf(filled, TRUE, FALSE, fault)) :
        filled \in {S \in SUBSET Slots : "image" \in S /\ Cardinality(S) <= MaxFilled},
        ref \in BOOLEAN, fault \in Faults }

\* the ocr_mode and strict arguments, and whether the recognizer is there
Options ==
    { [ocr_mode |-> "off", ocr_ok |-> TRUE, strict |-> FALSE],
      [ocr_mode |-> "off", ocr_ok |-> TRUE, strict |-> TRUE],
      [ocr_mode |-> "always", ocr_ok |-> TRUE, strict |-> FALSE],
      [ocr_mode |-> "auto", ocr_ok |-> TRUE, strict |-> FALSE],
      [ocr_mode |-> "auto", ocr_ok |-> FALSE, strict |-> FALSE] }

\* the denylists: none, the character data of the places, a string in no
\* document
PatternLists ==
    { <<>>, <<from_string(SlotText)>>, <<from_string(<<"b", "b">>)>> }

Init ==
    /\ pc = "start"
    /\ doc \in Docs
    /\ doc.layer = <<>> => doc.layerOn
    /\ patterns \in PatternLists
    /\ opts \in Options
    /\ corpus = EmptyCorpus
    /\ result = NoResult
    /\ handle = NoHandle
    /\ prev = FirstCall
    /\ cli = NoCli

Next ==
    \/ Open
    \/ OpenFail
    \/ ExtractContentStreams
    \/ ExtractAnnotations
    \/ ExtractFormFields
    \/ ExtractMetadata
    \/ ExtractXObjects
    \/ ExtractOcgLayers
    \/ ExtractEmbedded
    \/ ExtractAllStreams
    \/ ExtractOcr
    \/ Close
    \/ ReturnError
    \/ Decide
    \/ Again
    \/ AgainTwin

Spec == Init /\ [][Next]_vars

----------------------------------------------------------------------------
(* The denylist loader: load_denylist and the regex branch of from_string *)

startswith(t, prefix) ==
    Len(prefix) <= Len(t) /\ SubSeq(t, 1, Len(prefix)) = prefix

\* the nesting depth of the parentheses of s after its first n characters
RECURSIVE ParenDepth(_, _)
ParenDepth(s, n) ==
    IF n = 0 THEN 0
    ELSE ParenDepth(s, n - 1)
         + (IF s[n] = "(" THEN 1 ELSE IF s[n] = ")" THEN 0 - 1 ELSE 0)

\* re.compile accepts s: of the regex syntax the model has the group
\* parentheses, which must balance
RegexValid(s) ==
    /\ \A n \in 1..Len(s) : ParenDepth(s, n) >= 0
    /\ ParenDepth(s, Len(s)) = 0

\* re.compile(s, re.IGNORECASE | re.MULTILINE): every character but a group
\* parenthesis matches itself
RECURSIVE CompileRegex(_)
CompileRegex(s) ==
    IF s = <<>> THEN <<>>
    ELSE (IF Head(s) \in {"(", ")"} THEN <<>>
          ELSE <<[t |-> "lit", c |-> Head(s)]>>)
         \o CompileRegex(Tail(s))

\* DenylistPattern.from_string(s, as_regex=True), for a valid s
from_regex(s) ==
    [pattern |-> CompileRegex(s), original |-> s, is_regex |-> TRUE]

RegexPrefix == <<"r", "e", "g", "e", "x", ":">>

\* what load_denylist gives: the list returned, or the exception raised
Returned(pats) == [value |-> Some(pats), raised |-> None]

Raised(kind, line_num) ==
    [value |-> None, raised |-> Some([kind |-> kind, line |-> line_num])]

\* lines 74-78: the inline strings, as literals
RECURSIVE InlinePatterns(_)
InlinePatterns(strings) ==
    IF strings = <<>> THEN <<>>
    ELSE (IF Head(strings) # <<>> /\ Strip(Head(strings)) # <<>>
          THEN <<from_string(Strip(Head(strings)))>>
          ELSE <<>>)
         \o InlinePatterns(Tail(strings))

\* lines 85-106: the lines of the file from line line_num on, pats being
\* the patterns so far
RECURSIVE FilePatterns(_, _, _)
FilePatterns(lines, line_num, pats) ==
    IF line_num > Len(lines) THEN Returned(pats)
    ELSE LET line == Strip(lines[line_num])
             regex_str == Strip(SubSeq(line, Len(RegexPrefix) + 1, Len(line)))
         IN  IF line = <<>> \/ startswith(line, <<"#">>)
             THEN FilePatterns(lines, line_num + 1, pats)
             ELSE IF startswith(line, RegexPrefix)
             THEN IF regex_str = <<>>
                  THEN FilePatterns(lines, line_num + 1, pats)
                  ELSE IF ~RegexValid(regex_str)
                  THEN Raised("ValueError", line_num)
                  ELSE FilePatterns(lines, line_num + 1,
                                    Append(pats, from_regex(regex_str)))
             ELSE FilePatterns(lines, line_num + 1,
                               Append(pats, from_string(line)))

\* load_denylist: strings is the --deny list, file the --denyfile (given or
\* not, existing or not, its lines)
load_denylist(strings, file) ==
    IF ~file.given THEN Returned(InlinePatterns(strings))
    ELSE IF ~file.exists THEN Raised("FileNotFoundError", 0)
    ELSE FilePatterns(file.lines, 1, InlinePatterns(strings))

----------------------------------------------------------------------------
(* The command line: main.  cli.files are the files the arguments expand   *)
(* to, each existing or not and holding a document; cli.submitted are the  *)
(* files given to the pool that no worker has taken, cli.running the files *)
(* a worker is verifying, cli.finished the worker results not yet taken by *)
(* main, in the order the workers completed.                               *)
(***************************************************************************)

\* ExitCode, an IntEnum
ExitValue == [PASS |-> 0, FAIL |-> 1, ERROR |-> 2]

\* the exit status of an interpreter left by an uncaught exception
UncaughtStatus == ExitValue.FAIL

\* an update that keeps the exit code of the result taken last
Worse_LastWins(worst_exit, exit_code) == exit_code

\* lines 162-163 and 175-176
Worse(worst_exit, exit_code) ==
    IF ExitValue[exit_code] > ExitValue[worst_exit] THEN exit_code ELSE worst_exit

\* main returns or is left by an exception
Exited(status, error) ==
    [cli EXCEPT !.pc = "exited", !.status = Some(status), !.error = error]

\* lines 125-136: no file, or a file that does not exist, ends main with
\* ERROR before the denylist is read
CheckFiles ==
    /\ cli.pc = "files"
    /\ cli' = IF cli.files = <<>>
              THEN Exited(ExitValue.ERROR, Some([kind |-> "no_files", line |-> 0]))
              ELSE IF \E i \in 1..Len(cli.files) : ~cli.files[i].exists
              THEN Exited(ExitValue.ERROR, Some([kind |-> "file_not_found", line |-> 0]))
              ELSE [cli EXCEPT !.pc = "denylist"]
    /\ UNCHANGED <<pc, doc, patterns, corpus, result, handle, opts, prev>>

\* a loading that, when a regex of the file is rejected, goes on with the
\* inline patterns
LoadDenylist_IgnoresError ==
    /\ cli.pc = "denylist"
    /\ LET r == load_denylist(cli.deny_strings, cli.denyfile)
           pats == IF r.raised # None /\ r.raised[1].kind = "ValueError"
                   THEN Some(InlinePatterns(cli.deny_strings))
                   ELSE r.value
       IN  cli' = IF pats = None
                  THEN Exited(UncaughtStatus, r.raised)
                  ELSE IF cli.jobs > 1 /\ Len(cli.files) > 1
                  THEN [cli EXCEPT !.patterns = pats, !.pc = "pool",
                                   !.submitted = 1..Len(cli.files)]
                  ELSE [cli EXCEPT !.patterns = pats, !.pc = "sequential"]
    /\ UNCHANGED <<pc, doc, patterns, corpus, result, handle, opts, prev>>

\* lines 138-160: the denylist is loaded; an exception of load_denylist
\* leaves main; otherwise the way of running is chosen, and with a pool
\* every file is submitted to it
LoadDenylist ==
    /\ cli.pc = "denylist"
    /\ LET r == load_denylist(cli.deny_strings, cli.denyfile)
       IN  cli' = IF r.raised # None
                  THEN Exited(UncaughtStatus, r.raised)
                  ELSE IF cli.jobs > 1 /\ Len(cli.files) > 1
                  THEN [cli EXCEPT !.patterns = r.value, !.pc = "pool",
                                   !.submitted = 1..Len(cli.files)]
                  ELSE [cli EXCEPT !.patterns = r.value, !.pc = "sequential"]
    /\ UNCHANGED <<pc, doc, patterns, corpus, result, handle, opts, prev>>

\* verify is entered on file i with the arguments of the run: lines
\* 111-116 and 169-174
Called(i) ==
    /\ doc' = cli.files[i].doc
    /\ patterns' = cli.patterns[1]
    /\ opts' = [ocr_mode |-> cli.ocr_mode, ocr_ok |-> cli.ocr_ok,
                strict |-> cli.strict]
    /\ corpus' = EmptyCorpus
    /\ result' = NoResult
    /\ handle' = NoHandle
    /\ pc' = "start"
    /\ UNCHANGED prev

\* verify has returned to its caller
VerifyReturns ==
    /\ pc' = "none"
    /\ UNCHANGED <<doc, patterns, corpus, result, handle, opts, prev>>

\* lines 168-174: verify is called on the next file
VerifySequential ==
    /\ cli.pc = "sequential"
    /\ pc = "none"
    /\ Len(cli.results) < Len(cli.files)
    /\ cli' = [cli EXCEPT !.calls = @ + 1]
    /\ Called(Len(cli.results) + 1)

\* lines 175-177: the result of the file is recorded
SequentialResult ==
    /\ cli.pc = "sequential"
    /\ pc = "done"
    /\ cli' = [cli EXCEPT
                 !.results = Append(@, [file |-> Len(cli.results) + 1,
                                        result |-> result]),
                 !.worst_exit = Worse(@, result.exit_code)]
    /\ VerifyReturns

\* verify_single_file in a worker process: a worker takes file i.  The
\* workers are processes that share nothing, so the steps of one verify
\* are taken before the steps of the next; the files are taken in any
\* order, which is the order they complete in
WorkerStart(i) ==
    /\ cli.pc = "pool"
    /\ pc = "none"
    /\ i \in cli.submitted
    /\ Cardinality(cli.running) < cli.jobs
    /\ cli' = [cli EXCEPT !.calls = @ + 1,
                          !.submitted = @ \ {i},
                          !.running = @ \cup {i}]
    /\ Called(i)

\* verify_single_file line 117: the worker of file i returns its result
WorkerFinish(i) ==
    /\ cli.pc = "pool"
    /\ pc = "done"
    /\ i \in cli.running
    /\ cli' = [cli EXCEPT
                 !.running = @ \ {i},
                 !.finished = Append(@, [file |-> i, result |-> result])]
    /\ VerifyReturns

\* lines 160-163: main takes the next completed future
Collect ==
    /\ cli.pc = "pool"
    /\ cli.finished # <<>>
    /\ cli' = [cli EXCEPT
                 !.finished = Tail(@),
                 !.results = Append(@, Head(cli.finished)),
                 !.worst_exit = Worse(@, Head(cli.finished).result.exit_code)]
    /\ UNCHANGED <<pc, doc, patterns, corpus, result, handle, opts, prev>>

\* lines 178-187: every file has its result; the report is printed and
\* main returns the worst exit code
Report ==
    /\ cli.pc \in {"sequential", "pool"}
    /\ Len(cli.results) = Len(cli.files)
    /\ cli' = Exited(ExitValue[cli.worst_exit], None)
    /\ UNCHANGED <<pc, doc, patterns, corpus, result, handle, opts, prev>>

\* most files of a run of main
MaxFiles == 2

\* the documents of the files: one that does not open, one without
\* character data, one with the denied string on its page, one with it in
\* the metadata and whose annotations cannot be listed
CliDocs ==
    { Unreadable,
      DocOf({}, TRUE, FALSE, "none"),
      DocOf({"base"}, TRUE, FALSE, "none"),
      DocOf({"meta"}, TRUE, FALSE, "annots") }

CliFiles ==
    {[exists |-> FALSE, doc |-> Unreadable]}
    \cup {[exists |-> TRUE, doc |-> d] : d \in CliDocs}

\* the --deny lists
DenyStrings == { <<>>, <<SlotText>> }

\* the lines of the --denyfile files
DenyLines ==
    { <<SlotText>>,
      <<<<"#", "c">>, RegexPrefix \o <<"(", "a", ")", "b", "a", "b">>>>,
      <<SlotText, <<>>, RegexPrefix \o <<"(">>>>,
      <<RegexPrefix \o <<"a", ")">>, SlotText>> }

DenyFiles ==
    { [given |-> FALSE, exists |-> FALSE, lines |-> <<>>],
      [given |-> TRUE, exists |-> FALSE, lines |-> <<>>] }
    \cup { [given |-> TRUE, exists |-> TRUE, lines |-> ls] : ls \in DenyLines }

\* the values of --jobs
Jobs == {1, 2}

\* the --ocr and --strict arguments of the runs: the defaults, and OCR on
CliOptions ==
    { [ocr_mode |-> "off", ocr_ok |-> TRUE, strict |-> FALSE],
      [ocr_mode |-> "always", ocr_ok |-> TRUE, strict |-> FALSE] }

InitCli ==
    /\ pc = "none"
    /\ doc = NoDoc
    /\ patterns = <<>>
    /\ corpus = EmptyCorpus
    /\ result = NoResult
    /\ handle = NoHandle
    /\ opts = DefaultOpts
    /\ prev = FirstCall
    /\ \E n \in 0..MaxFiles : \E fs \in [1..n -> CliFiles] :
       \E ds \in DenyStrings : \E df \in DenyFiles : \E j \in Jobs :
       \E o \in CliOptions :
          cli = [pc |-> "files", files |-> fs, deny_strings |-> ds,
                 denyfile |-> df, jobs |-> j, strict |-> o.strict,
                 ocr_mode |-> o.ocr_mode, ocr_ok |-> o.ocr_ok,
                 patterns |-> None, submitted |-> {}, running |-> {},
                 finished |-> <<>>, results |-> <<>>, worst_exit |-> "PASS",
                 calls |-> 0, status |-> None, error |-> None]

NextCli ==
    \/ CheckFiles
    \/ LoadDenylist
    \/ VerifySequential
    \/ SequentialResult
    \/ \E i \in 1..Len(cli.files) : WorkerStart(i)
    \/ \E i \in 1..Len(cli.files) : WorkerFinish(i)
    \/ Collect
    \/ Report
    \/ Open
    \/ OpenFail
    \/ ExtractContentStreams
    \/ ExtractAnnotations
    \/ ExtractFormFields
    \/ ExtractMetadata
    \/ ExtractXObjects
    \/ ExtractOcgLayers
    \/ ExtractEmbedded
    \/ ExtractAllStreams
    \/ ExtractOcr
    \/ Close
    \/ ReturnError
    \/ Decide

SpecCli == InitCli /\ [][NextCli]_vars

----------------------------------------------------------------------------
(* The match engine on its own: verify from a given corpus *)

\* most fragments in a corpus handed to the match engine
MaxFrags == 2

\* fragment texts
MatchTexts ==
    { <<>>,
      <<"a">>, <<"b">>, <<"a", "b">>, <<"A", "b">>,
      <<"a", " ", "b">>,
      <<"a", "b", "a", "b">> }

\* where a fragment comes from: its source and page
MatchOrigins ==
    { [source |-> "content", page |-> Some(0)],
      [source |-> "metadata", page |-> None],
      [source |-> "raw_stream", page |-> None] }

MatchFragments ==
    { TextFragment(t, o.source, o.page, None) : t \in MatchTexts, o \in MatchOrigins }

\* literal deny-strings
MatchLiterals ==
    { <<"a", "b">>, <<"a", " ", "b">>, <<"a", "b", "a", "b">> }

\* a literal deny-string with a run of two spaces
SpacedLiteral == <<"a", " ", " ", "b">>

MatchPatternLists ==
    {<<>>} \cup { <<from_string(p)>> : p \in MatchLiterals \cup {SpacedLiteral} }
           \cup { <<from_string(p), from_string(q)>> : p, q \in MatchLiterals }

InitMatch ==
    /\ pc = "extracted"
    /\ doc = NoDoc
    /\ patterns \in MatchPatternLists
    /\ \E n \in 0..MaxFrags : \E fs \in [1..n -> MatchFragments] :
          corpus = [EmptyCorpus EXCEPT !.fragments = fs]
    /\ result = NoResult
    /\ handle = NoHandle
    /\ opts = DefaultOpts
    /\ prev = FirstCall
    /\ cli = NoCli

NextMatch == Decide

SpecMatch == InitMatch /\ [][NextMatch]_vars

----------------------------------------------------------------------------
(* The object-graph walk on documents whose form holds resources of its    *)
(* own: the extraction up to and including the walk.                       *)

\* most references the dictionary of the form holds
MaxRefs == 2

\* the ids a reference can name: 0, the ids of the object table, and the
\* first id past it
RefIds == 0..(Len(Objects(DocOf({}, TRUE, FALSE, "none"))) + 1)

\* the resource types the page's resources list an object under
ResourceTypes == {"XObject", "Pattern"}

WalkDocs ==
    { [DocOf(filled, TRUE, FALSE, fault) EXCEPT
            !.formRes = res, !.formRefs = refs, !.listedAs = type,
            !.imageRef = ("image" \in filled /\ type = "Pattern")] :
        filled \in {{"form"}, {"form", "image"}},
        fault \in {"none", "get_resources", "xref_stream"},
        res \in BOOLEAN,
        refs \in UNION { [1..n -> RefIds] : n \in 0..MaxRefs },
        type \in ResourceTypes }

InitWalk ==
    /\ pc = "start"
    /\ doc \in WalkDocs
    /\ patterns = <<>>
    /\ opts = DefaultOpts
    /\ corpus = EmptyCorpus
    /\ result = NoResult
    /\ handle = NoHandle
    /\ prev = FirstCall
    /\ cli = NoCli

NextWalk ==
    \/ Open
    \/ ExtractContentStreams
    \/ ExtractAnnotations
    \/ ExtractFormFields
    \/ ExtractMetadata
    \/ ExtractXObjects

SpecWalk == InitWalk /\ [][NextWalk]_vars

----------------------------------------------------------------------------
(* Properties of the match engine *)

\* the elements of a sequence
Range(seq) == {seq[i] : i \in 1..Len(seq)}

\* the key of a reported match
MatchKey(m) == <<m.pattern, m.source, m.page, m.text>>

EndsWith(t, a) == Len(a) <= Len(t) /\ SubSeq(t, Len(t) - Len(a) + 1, Len(t)) = a

BeginsWith(t, b) == Len(b) <= Len(t) /\ SubSeq(t, 1, Len(b)) = b

\* the ways of cutting text p in two non-empty parts at a blank that is dropped
SpaceCuts(p) ==
    { k \in 2..(Len(p) - 1) : p[k] = " " }

\* C5: a literal pattern found verbatim in a fragment with a text is reported
\* with that fragment's source and page, and the verdict is FAIL
C5_VerbatimFragmentReported ==
    pc = "done" =>
        \A j \in 1..Len(patterns) : \A i \in 1..Len(corpus.fragments) :
            LET f == corpus.fragments[i]
                P == patterns[j].original
            IN  (f.text # <<>> /\ Contains(f.text, P)) =>
                    /\ \E m \in Range(result.matches) :
                          /\ m.pattern = P
                          /\ m.source = Label(f.source)
                          /\ m.page = f.page
                    /\ result.exit_code = "FAIL"

C5_Witness ==
    /\ pc = "done"
    /\ Len(corpus.fragments) = 2
    /\ corpus.fragments[1].source = "content"
    /\ corpus.fragments[2].source = "raw_stream"
    /\ \E j \in 1..Len(patterns) :
          /\ Contains(corpus.fragments[1].text, patterns[j].original)
          /\ Contains(corpus.fragments[2].text, patterns[j].original)
          /\ \E m \in Range(result.matches) :
                m.pattern = patterns[j].original /\ m.source = Label("raw_stream")

\* C6: a phrase A B cut at its blank between a fragment ending with A and
\* the next fragment beginning with B, and held by no single fragment, is
\* reported as a spanning match and the verdict is FAIL
C6_SplitAtBlankSpans ==
    pc = "done" =>
        \A j \in 1..Len(patterns) : \A i \in 1..(Len(corpus.fragments) - 1) :
            \A k \in SpaceCuts(patterns[j].original) :
                LET P == patterns[j].original
                    A == SubSeq(P, 1, k - 1)
                    B == SubSeq(P, k + 1, Len(P))
                IN  ( /\ EndsWith(corpus.fragments[i].text, A)
                      /\ BeginsWith(corpus.fragments[i + 1].text, B)
                      /\ \A f \in Range(corpus.fragments) : ~Contains(f.text, P) )
                    => /\ \E m \in Range(result.matches) :
                            /\ m.pattern = P
                            /\ m.location = Some(SpanningLocation)
                       /\ result.exit_code = "FAIL"

C6_Witness ==
    /\ pc = "done"
    /\ Len(corpus.fragments) = 2
    /\ corpus.fragments[1].text = <<"a">>
    /\ corpus.fragments[2].text = <<"b">>
    /\ Len(patterns) = 1
    /\ patterns[1].original = <<"a", " ", "b">>
    /\ Len(result.matches) = 1
    /\ result.matches[1].location = Some(SpanningLocation)

\* C7: a literal pattern whose text is divided between two fragments, at any
\* position and wherever the two fragments stand, makes the verdict FAIL
C7_AnySplitDetected ==
    pc = "done" =>
        \A j \in 1..Len(patterns) :
            \A k \in 1..(Len(patterns[j].original) - 1) :
                \A i1, i2 \in 1..Len(corpus.fragments) :
                    LET P == patterns[j].original
                    IN  ( /\ i1 # i2
                          /\ corpus.fragments[i1].text = SubSeq(P, 1, k)
                          /\ corpus.fragments[i2].text = SubSeq(P, k + 1, Len(P)) )
                        => result.exit_code = "FAIL"

\* C9: no two reported matches have the same pattern, source, page and text
C9_NoDuplicateKeys ==
    pc = "done" =>
        \A i, j \in 1..Len(result.matches) :
            i # j => MatchKey(result.matches[i]) # MatchKey(result.matches[j])

----------------------------------------------------------------------------
(* Properties of verify on a document file *)

\* the surfaces extract_all goes through whatever the options
AllSurfaces ==
    {"content_streams", "annotations", "form_fields", "metadata", "xobjects",
     "ocg_layers", "embedded", "all_streams"}

\* the keys of the matches of a result
MatchKeys(r) == {MatchKey(m) : m \in Range(r.matches)}

\* C1: verify returns ERROR if and only if the document could not be
\* opened: a document that opens gives PASS or FAIL whatever adapter call
\* fails later, a document that does not open gives ERROR
C1_ErrorIffOpenFails ==
    pc = "done" => (result.exit_code = "ERROR" <=> ~doc.opens)

\* C2: a fault raised by an adapter call inside a surface extractor never
\* aborts the run: when the extraction is over, every surface of the fixed
\* order has been gone through, and so has OCR when it was asked for
C2_FaultNeverAborts ==
    pc \in {"extracted", "failed"} =>
        /\ AllSurfaces \subseteq Range(corpus.surfaces_extracted)
        /\ opts.ocr_mode \in {"auto", "always"}
              => "ocr" \in Range(corpus.surfaces_extracted)

\* C3: every call ends in exactly one of PASS, FAIL, ERROR; the exit code
\* is FAIL if and only if the match list is not empty, so a PASS or ERROR
\* result carries an empty match list
C3_FailIffMatches ==
    pc = "done" =>
        /\ result.exit_code \in {"PASS", "FAIL", "ERROR"}
        /\ result.exit_code = "FAIL" <=> result.matches # <<>>

\* a call on a document holding the denied string returned FAIL with its
\* matches
C3_Witness ==
    /\ pc = "done"
    /\ result.exit_code = "FAIL"
    /\ \E m \in Range(result.matches) : m.text = SlotText

\* C4: with an empty pattern set the result is PASS if and only if the
\* document opens, and that PASS result carries the surfaces the corpus
\* lists and the corpus's ocr_performed flag
C4_EmptyPatternsPassIffOpens ==
    (pc = "done" /\ patterns = <<>>) =>
        /\ result.exit_code = "PASS" <=> doc.opens
        /\ result.exit_code = "PASS" =>
              /\ result.surfaces_checked = corpus.surfaces_extracted
              /\ result.ocr_performed = corpus.ocr_performed

\* C8: of two documents that differ only in the stored visibility of the
\* layer holding the denied string, verified with the same patterns, both
\* results are FAIL and both have the same set of match keys
C8_VisibilityInvariance ==
    (pc = "done" /\ prev.kind = "twin" /\ patterns = <<from_string(doc.layer)>>) =>
        /\ prev.result.exit_code = "FAIL"
        /\ result.exit_code = "FAIL"
        /\ MatchKeys(result) = MatchKeys(prev.result)

\* C10: two calls of verify on the same unchanged document with the same
\* patterns and options return the same exit code and the same set of
\* match keys
C10_Idempotent ==
    (pc = "done" /\ prev.kind = "same") =>
        /\ result.exit_code = prev.result.exit_code
        /\ MatchKeys(result) = MatchKeys(prev.result)

\* the second call returned FAIL on a document whose hidden layer the first
\* call switched on for recognition and left switched on
C10_Witness ==
    /\ pc = "done"
    /\ prev.kind = "same"
    /\ result.exit_code = "FAIL"
    /\ doc.layer # <<>> /\ ~doc.layerOn /\ doc.ocapi
    /\ handle.visible
    /\ result.ocr_performed

----------------------------------------------------------------------------
(* Further properties of the match engine *)

\* C11: a literal pattern given twice yields exactly the match list it
\* yields given once: the second copy adds no fragment-level match and no
\* spanning match
C11_RepeatedPatternAddsNothing ==
    (pc = "done" /\ Len(patterns) = 2 /\ patterns[1] = patterns[2]) =>
        /\ check_corpus(corpus, patterns) = check_corpus(corpus, <<patterns[1]>>)
        /\ result.matches = check_corpus(corpus, <<patterns[1]>>)

\* a pattern given twice was found in a fragment and across the full text,
\* and each was reported once
C11_Witness ==
    /\ pc = "done"
    /\ Len(patterns) = 2
    /\ patterns[1] = patterns[2]
    /\ Len(corpus.fragments) = 1
    /\ corpus.fragments[1].page # None
    /\ Len(result.matches) = 2
    /\ result.matches[1].location = None
    /\ result.matches[2].location = Some(SpanningLocation)

----------------------------------------------------------------------------
(* The denylist file and the run of main *)

\* the numbers of the lines of the --denyfile whose regex re.compile
\* rejects
BadRegexLines ==
    IF ~(cli.denyfile.given /\ cli.denyfile.exists) THEN {}
    ELSE { n \in 1..Len(cli.denyfile.lines) :
             LET line == Strip(cli.denyfile.lines[n])
             IN  /\ startswith(line, RegexPrefix)
                 /\ ~RegexValid(Strip(SubSeq(line, Len(RegexPrefix) + 1,
                                             Len(line)))) }

\* C12: when a line of the denylist file holds an invalid regex,
\* load_denylist raises a ValueError that cites the 1-based number of the
\* first such line and returns no pattern list, not even the valid patterns
\* before that line; main never holds a pattern list, never calls verify,
\* no document is opened and no result recorded, and main does not end
\* with status 0
C12_InvalidRegexStopsBeforeVerify ==
    BadRegexLines # {} =>
        /\ load_denylist(cli.deny_strings, cli.denyfile)
             = Raised("ValueError", SetMin(BadRegexLines))
        /\ load_denylist(cli.deny_strings, cli.denyfile).value = None
        /\ cli.patterns = None
        /\ cli.calls = 0
        /\ pc = "none"
        /\ ~handle.open
        /\ cli.results = <<>>
        /\ cli.pc \in {"files", "denylist", "exited"}
        /\ (cli.pc = "exited" => cli.status # Some(ExitValue.PASS))

\* main was left by the ValueError of line 3 of a denylist file whose
\* line 1 is a valid pattern, with --deny patterns given as well
C12_Witness ==
    /\ cli.pc = "exited"
    /\ cli.error = Some([kind |-> "ValueError", line |-> 3])
    /\ cli.denyfile.lines[1] = SlotText
    /\ cli.deny_strings # <<>>
    /\ cli.files # <<>>
    /\ cli.calls = 0

----------------------------------------------------------------------------
(* The result of a call that ended in ERROR *)

\* C13: every result with exit code ERROR carries an error message that is
\* not empty, no match, an empty list of surfaces checked and
\* ocr_performed false, whatever the extractors had put in the corpus
\* before the call failed
C13_ErrorResultIsBare ==
    (pc = "done" /\ result.exit_code = "ERROR") =>
        /\ result.error # None
        /\ result.error[1] # ""
        /\ result.matches = <<>>
        /\ result.surfaces_checked = <<>>
        /\ result.ocr_performed = FALSE

\* a call ended in ERROR after several extractors had run and had put a
\* fragment holding the denied string in the corpus
C13_Witness ==
    /\ pc = "done"
    /\ result.exit_code = "ERROR"
    /\ Len(corpus.surfaces_extracted) >= 2
    /\ corpus.fragments # <<>>
    /\ patterns # <<>>
    /\ check_corpus(corpus, patterns) # <<>>

----------------------------------------------------------------------------
(* The source labels of the fragments *)

\* the source labels a fragment can carry
FragmentSources ==
    {"content", "annotation", "form_field", "metadata", "xobject", "embedded",
     "raw_stream", "ocr"}

\* the fragments the hidden-layer extractor adds for the open document
HiddenLayerFragments == _extract_ocg_layers(doc, doc.layerOn).frags

\* the denied phrase is in the layer, stored OFF, and nowhere else, and the
\* hidden-layer extractor found it
FoundOnlyInOffLayer ==
    /\ doc.opens
    /\ doc.layer # <<>>
    /\ ~doc.layerOn
    /\ \A slot \in Slots \ {"layer"} : doc[slot] = <<>>
    /\ patterns = <<from_string(SlotText)>>
    /\ check_corpus([EmptyCorpus EXCEPT !.fragments = HiddenLayerFragments],
                    patterns) # <<>>

\* C14: every fragment the hidden-layer extractor adds has source
\* "content"; every fragment of every corpus has one of the eight source
\* labels; and a call on a document whose denied phrase the hidden-layer
\* extractor found only in a layer stored OFF returns FAIL with a match of
\* source "content"
C14_HiddenLayerFailsAsContent ==
    /\ doc.opens =>
          \A i \in 1..Len(HiddenLayerFragments) :
             HiddenLayerFragments[i].source = "content"
    /\ \A i \in 1..Len(corpus.fragments) :
          corpus.fragments[i].source \in FragmentSources
    /\ (pc = "done" /\ FoundOnlyInOffLayer) =>
          /\ result.exit_code = "FAIL"
          /\ \E i \in 1..Len(result.matches) :
                result.matches[i].source = Label("content")

----------------------------------------------------------------------------
(* The image of width and height 0 *)

\* C15: a call on a document whose image object of width and height 0
\* holds the denied text in its bytes, the image named by the page's
\* resources or by nothing, returns FAIL with at least one match of source
\* "embedded"
C15_ZeroSizeImageFailsAsEmbedded ==
    (/\ pc = "done"
     /\ doc.opens
     /\ doc.image = SlotText
     /\ patterns = <<from_string(SlotText)>>) =>
        /\ result.exit_code = "FAIL"
        /\ \E i \in 1..Len(result.matches) :
              result.matches[i].source = Label("embedded")

----------------------------------------------------------------------------
(* The denied string in the visible text of the page *)

\* C16: a call on a one-page document whose visible page text holds the
\* denied string once, and that holds no other character data, returns
\* FAIL with exactly one match, of source "content" and page 0
C16_VisibleTextOneContentMatch ==
    (/\ pc = "done"
     /\ doc.opens
     /\ doc.base = SlotText
     /\ \A slot \in Slots \ {"base"} : doc[slot] = <<>>
     /\ patterns = <<from_string(SlotText)>>) =>
        /\ result.exit_code = "FAIL"
        /\ Len(result.matches) = 1
        /\ result.matches[1].source = Label("content")
        /\ result.matches[1].page = Some(0)

----------------------------------------------------------------------------
(* The exit status of a batch *)

\* the arguments main gives verify
CliOpts ==
    [ocr_mode |-> cli.ocr_mode, ocr_ok |-> cli.ocr_ok, strict |-> cli.strict]

\* the exit code of verify on file i of the run, called on its own
FileExit(i) ==
    ExitValue[verify(cli.files[i].doc, cli.patterns[1], CliOpts).exit_code]

\* the worst exit code of a sequential run over files 1..n
RECURSIVE SequentialWorst(_)
SequentialWorst(n) ==
    IF n = 0 THEN "PASS"
    ELSE Worse(SequentialWorst(n - 1),
               verify(cli.files[n].doc, cli.patterns[1], CliOpts).exit_code)

----------------------------------------------------------------------------
(* The OCR mode *)

\* the modes under which extract_all calls the OCR extractor
OcrModes == {"auto", "always"}

\* the arguments opts with the other of the two OCR modes
OtherMode(o) ==
    [o EXCEPT !.ocr_mode = IF @ = "auto" THEN "always" ELSE "auto"]

ResultWithoutOcr == verify(doc, patterns, [opts EXCEPT !.ocr_mode = "off"])

\* C19: when OCR is asked for and the recognizer is not there, the call
\* does not fail on that account: the corpus names the surface "ocr",
\* holds no fragment of source "ocr" and has ocr_performed false, and the
\* exit code, the matches and the error of the result are those of the
\* same call under mode off, the surfaces checked being those of that call
\* with "ocr" after them
C19_MissingRecognizerSkipsOcr ==
    /\ (pc \in {"close", "extracted"} /\ opts.ocr_mode \in OcrModes /\ ~opts.ocr_ok) =>
          /\ corpus.surfaces_extracted[Len(corpus.surfaces_extracted)] = "ocr"
          /\ ~corpus.ocr_performed
          /\ \A i \in 1..Len(corpus.fragments) : corpus.fragments[i].source # "ocr"
    /\ (pc = "done" /\ opts.ocr_mode \in OcrModes /\ ~opts.ocr_ok) =>
          /\ result.exit_code = ResultWithoutOcr.exit_code
          /\ result.matches = ResultWithoutOcr.matches
          /\ result.error = ResultWithoutOcr.error
          /\ ~result.ocr_performed
          /\ result.exit_code # "ERROR" =>
                result.surfaces_checked
                  = Append(ResultWithoutOcr.surfaces_checked, "ocr")

\* a call under mode auto without the recognizer ended in PASS on a
\* document with visible page text, the page rendering of which would have
\* raised
C19_Witness ==
    /\ pc = "done"
    /\ opts.ocr_mode = "auto"
    /\ ~opts.ocr_ok
    /\ doc.opens
    /\ doc.base # <<>>
    /\ doc.fault = "get_pixmap"
    /\ result.exit_code = "PASS"
    /\ "ocr" \in Range(result.surfaces_checked)

\* C20: with the strict flag set the OCR extractor runs even under the
\* default mode off: an extraction that reached its end under strict names
\* the surface "ocr", and so does the result of a call that did not end in
\* ERROR
C20_StrictEnablesOcr ==
    /\ (pc = "extracted" /\ opts.strict) =>
          "ocr" \in Range(corpus.surfaces_extracted)
    /\ (pc = "done" /\ opts.strict /\ result.exit_code # "ERROR") =>
          "ocr" \in Range(result.surfaces_checked)

----------------------------------------------------------------------------
(* The order of the extractors and the start of the matching *)

\* the surfaces in the order extract_all goes through them
SurfaceOrder ==
    <<"content_streams", "annotations", "form_fields", "metadata", "xobjects",
      "ocg_layers", "embedded", "all_streams", "ocr">>

\* the surfaces a complete extraction under the arguments o has named
CompleteSurfaces(o) ==
    SubSeq(SurfaceOrder, 1, IF o.ocr_mode \in {"auto", "always"} THEN 9 ELSE 8)

\* the number of extractors entered before the extractor of position p
Entered ==
    [content_streams |-> 0, annotations |-> 1, form_fields |-> 2,
     metadata |-> 3, xobjects |-> 4, ocg_layers |-> 5, embedded |-> 6,
     all_streams |-> 7, ocr |-> 8]

\* the surfaces named are the first ones of the fixed order; before each
\* extractor exactly the earlier ones are named; after the last one all are
ExtractorsInOrder ==
    /\ \E n \in 0..Len(SurfaceOrder) :
          corpus.surfaces_extracted = SubSeq(SurfaceOrder, 1, n)
    /\ pc \in DOMAIN Entered =>
          /\ Len(corpus.surfaces_extracted) = Entered[pc]
          /\ handle.open
    /\ pc \in {"close", "extracted"} =>
          corpus.surfaces_extracted = CompleteSurfaces(opts)
    /\ pc = "extracted" => ~handle.open

\* the step in which the match engine gives the result of the call
MatchingStep == result' # result /\ result'.exit_code \in {"PASS", "FAIL"}

\* C21: within one call the extractors run one after the other in the
\* fixed order content, annotations, forms, metadata, object graph, hidden
\* layers, embedded, raw streams, then OCR if enabled; each names its
\* surface whether or not it adds fragments; and the matching starts only
\* when the last extractor has finished and the document is closed, on the
\* complete corpus
C21_ExtractorsInOrderThenMatch ==
    /\ []ExtractorsInOrder
    /\ [][MatchingStep =>
            /\ pc = "extracted"
            /\ ~handle.open
            /\ corpus.surfaces_extracted = CompleteSurfaces(opts)
            /\ corpus' = corpus
            /\ result'.surfaces_checked = CompleteSurfaces(opts)]_vars

\* a call with OCR ended in FAIL: all nine surfaces are named, and the
\* fragments come from the metadata only
C21_Witness ==
    /\ pc = "done"
    /\ result.exit_code = "FAIL"
    /\ result.surfaces_checked = SurfaceOrder
    /\ ~handle.open
    /\ corpus.fragments # <<>>
    /\ \A i \in 1..Len(corpus.fragments) : corpus.fragments[i].source = "metadata"

----------------------------------------------------------------------------
(* The source of a spanning match *)

\* the texts t and u share a piece of at least OverlapLen characters, case
\* apart
SharesPiece(t, u) ==
    \E i \in 1..Len(u) : \E n \in OverlapLen..Len(u) :
       /\ i + n - 1 <= Len(u)
       /\ Contains(LowerText(t), SubSeq(LowerText(u), i, i + n - 1))

\* the sources of the fragments of the corpus that share a piece with mt
SharingSources(mt) ==
    { corpus.fragments[i].source :
        i \in {k \in 1..Len(corpus.fragments) :
                 SharesPiece(corpus.fragments[k].text, mt)} }

\* C22: the source of every spanning match is the only source whose
\* fragments share a piece of at least 3 characters with the matched text
\* when there is one such source, the composite label of all such sources
\* when there are several, and "multiple_sources" when there is none,
\* whatever the length of the matched text, 3 characters included
C22_SpanningSourceNamesSharers ==
    pc = "done" =>
        \A i \in 1..Len(result.matches) :
           result.matches[i].location = Some(SpanningLocation) =>
              LET S == SharingSources(result.matches[i].text)
              IN  result.matches[i].source =
                     IF S = {} THEN Label("multiple_sources")
                     ELSE IF Cardinality(S) = 1 THEN Label(CHOOSE x \in S : TRUE)
                     ELSE CompositeLabel(S)

\* the match m is a spanning match
IsSpanning(m) == m.location = Some(SpanningLocation)

\* C23: a spanning match is reported only for a hit that no single
\* fragment shows: no result holds a spanning match together with a match
\* of the same pattern and the same matched text found inside a fragment,
\* and the pattern of a spanning match is found in no fragment with that
\* matched text
C23_SpanningOnlyWhenNoFragmentHit ==
    pc = "done" =>
        \A i \in 1..Len(result.matches) :
           IsSpanning(result.matches[i]) =>
              /\ ~\E j \in 1..Len(result.matches) :
                     /\ ~IsSpanning(result.matches[j])
                     /\ result.matches[j].pattern = result.matches[i].pattern
                     /\ result.matches[j].text = result.matches[i].text
              /\ ~\E k \in 1..Len(corpus.fragments) : \E q \in 1..Len(patterns) :
                     /\ patterns[q].original = result.matches[i].pattern
                     /\ Search(patterns[q].pattern, corpus.fragments[k].text)
                     /\ Group0(patterns[q].pattern, corpus.fragments[k].text)
                          = result.matches[i].text

----------------------------------------------------------------------------
(* The object-graph walk *)

\* the object ids the walk of the open document called
\* _extract_xobject_by_xref on, in call order
Visits == ObjectGraphWalk(doc, handle.visible).visits

\* C24: during one object-graph walk (the pass over the page's resources,
\* the nested references and the pass over the whole table together)
\* _extract_xobject_by_xref is called at most once on each object id,
\* whatever markers the dictionary text of the object holds
C24_EachObjectVisitedOnce ==
    (pc = "ocg_layers" /\ doc.opens) =>
        \A i, j \in 1..Len(Visits) : Visits[i].xref = Visits[j].xref => i = j

\* the object ids the walk can meet: those of the object table and those
\* the dictionary of the form refers to
WalkIds == (1..(xref_length(doc) - 1)) \cup Range(doc.formRefs)

\* the calls of _extract_xobject_by_xref made from inside another call
Recursive == { j \in 1..Len(Visits) : Visits[j].depth > 1 }

\* C25: the object-graph walk ends on every object table, also when the
\* form refers to itself or to the page that names it: a call made from
\* inside another call is never on an id called before, so the calls in
\* progress and the recursive calls are at most as many as the ids
C25_WalkIsBounded ==
    pc = "ocg_layers" =>
        /\ \A j \in Recursive : \A i \in 1..(j - 1) :
              Visits[i].xref # Visits[j].xref
        /\ \A j \in 1..Len(Visits) : Visits[j].depth <= Cardinality(WalkIds)
        /\ Cardinality(Recursive) <= Cardinality(WalkIds)

\* the form refers to itself and to the page, whose resources name the
\* form, and the walk went three calls deep
C25_Witness ==
    /\ pc = "ocg_layers"
    /\ doc.formRes
    /\ doc.formRefs = <<Xref.form, Xref.page>>
    /\ \E j \in 1..Len(Visits) : Visits[j].depth = 3

\* the objects of the table whose dictionary text holds a /Subtype /Form or
\* a /Subtype /Image marker
MarkedObjects ==
    { xref \in 1..(xref_length(doc) - 1) :
        \/ HasSubtype(Objects(doc)[xref], "Form")
        \/ HasSubtype(Objects(doc)[xref], "Image") }

\* C26: when the walk of a document whose adapter calls all succeed is
\* over, _extract_xobject_by_xref was called on every object marked as a
\* Form or an Image, under whatever resource type the page's resources
\* list it, or with no reference to it at all
C26_EveryMarkedObjectProcessed ==
    (pc = "ocg_layers" /\ doc.fault = "none") =>
        \A xref \in MarkedObjects :
            \E i \in 1..Len(Visits) : Visits[i].xref = xref

\* the same on the documents whose page lists its objects as XObject
C26_ProcessedWhenListedAsXObject ==
    (pc = "ocg_layers" /\ doc.fault = "none" /\ doc.listedAs = "XObject") =>
        \A xref \in MarkedObjects :
            \E i \in 1..Len(Visits) : Visits[i].xref = xref

----------------------------------------------------------------------------
(* The raw-stream extractor *)

\* the fragments _extract_all_streams adds for the open document
RawFragments == _extract_all_streams(doc).frags

\* the step of _extract_all_streams is over
AfterAllStreams ==
    /\ pc \in {"ocr", "close"}
    /\ corpus.surfaces_extracted[Len(corpus.surfaces_extracted)] = "all_streams"

\* C27: every fragment the raw-stream extractor adds has a whitespace-
\* collapsed text of at least 3 characters and no two of them have the same
\* text, whether the object has a stream or only a dictionary; and every
\* object with a stream, whatever its type, gives its collapsed stream text
C27_RawFragmentsLongAndUnique ==
    AfterAllStreams =>
        /\ \A i \in 1..Len(RawFragments) :
              /\ RawFragments[i].text = Normalize(RawFragments[i].text)
              /\ Len(RawFragments[i].text) >= 3
        /\ \A i, j \in 1..Len(RawFragments) :
              RawFragments[i].text = RawFragments[j].text => i = j
        /\ doc.fault = "none" =>
              \A xref \in 1..(xref_length(doc) - 1) :
                 Len(Normalize(Objects(doc)[xref].stream)) >= 3 =>
                    \E i \in 1..Len(RawFragments) :
                       RawFragments[i].text = Normalize(Objects(doc)[xref].stream)

\* the same without the length of the fragments of objects with no stream
C27_LongWithStreamAndUnique ==
    AfterAllStreams =>
        /\ \A i \in 1..Len(RawFragments) :
              /\ RawFragments[i].text = Normalize(RawFragments[i].text)
              /\ Objects(doc)[RawFragments[i].location[1][2]].stream # <<>>
                    => Len(RawFragments[i].text) >= 3
        /\ \A i, j \in 1..Len(RawFragments) :
              RawFragments[i].text = RawFragments[j].text => i = j
        /\ doc.fault = "none" =>
              \A xref \in 1..(xref_length(doc) - 1) :
                 Len(Normalize(Objects(doc)[xref].stream)) >= 3 =>
                    \E i \in 1..Len(RawFragments) :
                       RawFragments[i].text = Normalize(Objects(doc)[xref].stream)

----------------------------------------------------------------------------
(* The hidden-layer extractor *)

\* C28: the step of _extract_ocg_layers leaves the visibility of the layer
\* as it found it, also when a call raises after the layer was switched on
C28_VisibilityRestored ==
    [][pc = "ocg_layers" => handle'.visible = handle.visible]_vars

\* the same on the documents whose text can be read while the layer is
\* visible
C28_RestoredWhenTextReadable ==
    [][(pc = "ocg_layers" /\ doc.fault # "get_text_layer")
          => handle'.visible = handle.visible]_vars

\* the step of _extract_ocg_layers is over
AfterOcgLayers ==
    /\ pc = "embedded"
    /\ corpus.surfaces_extracted[Len(corpus.surfaces_extracted)] = "ocg_layers"

\* C29: whatever the optional-content API reports, the corpus holds after
\* the step of _extract_ocg_layers every fragment that the walk of the
\* object table for the structural markers gives, and when get_oc raises
\* every fragment that the walk from the catalog gives
C29_StructuralWalkAlwaysRuns ==
    AfterOcgLayers =>
        /\ doc.fault = "none" =>
              Range(_extract_hidden_ocg_from_structure(doc))
                 \subseteq Range(corpus.fragments)
        /\ doc.fault = "get_oc" =>
              Range(_extract_ocg_fallback(doc)) \subseteq Range(corpus.fragments)

\* the same on the documents whose optional-content API reports a
\* configuration
C29_WalkRunsWhenApiReports ==
    (AfterOcgLayers /\ doc.ocapi) =>
        /\ doc.fault = "none" =>
              Range(_extract_hidden_ocg_from_structure(doc))
                 \subseteq Range(corpus.fragments)
        /\ doc.fault = "get_oc" =>
              Range(_extract_ocg_fallback(doc)) \subseteq Range(corpus.fragments)

\* the walk for the structural markers finds a fragment
C29_WalkFinds ==
    /\ AfterOcgLayers
    /\ doc.fault = "none"
    /\ doc.ocapi
    /\ _extract_hidden_ocg_from_structure(doc) # <<>>

----------------------------------------------------------------------------
(* Literal patterns *)

\* C30: a literal pattern matches, whatever the case of the letters, every
\* text that holds the literal with each run of spaces brought down to one
\* blank, so a literal with a run of two spaces matches the words with one
\* blank between them; the call then fails with a match of that pattern
C30_SpaceRunMatchesOneBlank ==
    pc = "done" =>
        \A q \in 1..Len(patterns) : \A k \in 1..Len(corpus.fragments) :
            Contains(LowerText(corpus.fragments[k].text),
                     LowerText(Normalize(patterns[q].original)))
            => /\ Search(patterns[q].pattern, corpus.fragments[k].text)
               /\ \E i \in 1..Len(result.matches) :
                     result.matches[i].pattern = patterns[q].original

\* the same for the literals in which no space follows a space
C30_SingleSpacesMatch ==
    pc = "done" =>
        \A q \in 1..Len(patterns) : \A k \in 1..Len(corpus.fragments) :
            (/\ patterns[q].original = Normalize(patterns[q].original)
             /\ Contains(LowerText(corpus.fragments[k].text),
                         LowerText(patterns[q].original)))
            => /\ Search(patterns[q].pattern, corpus.fragments[k].text)
               /\ \E i \in 1..Len(result.matches) :
                     result.matches[i].pattern = patterns[q].original

====
